---- MODULE Spec2Model ----
(***************************************************************************)
(* Connectivity and pairing orchestration of the apple-tv adapter.         *)
(*                                                                         *)
(* SpecDM      : one DeviceManager (lib/device-manager.js) driving the     *)
(*               subprocess backend's push process, its timers, the        *)
(*               reconnect-timer callback and its owner's calls.           *)
(* SpecPair    : PyatvBackend instances (lib/backend/pyatv.js) whose       *)
(*               pairStart / pairFinish / pairAbort are called freely,     *)
(*               with the pairing processes' events and the 30 s timers.   *)
(* SpecPairTimers : the same, with every pending 30 s timer firing.        *)
(* SpecAdapter : the adapter's startPairing / submitPin / abortPairing     *)
(*               message handlers (main.js) over the same backends.        *)
(* SpecStore   : SpecDM with _storePairCredentials (main.js) replacing the  *)
(*               manager after its final disconnect().                     *)
(* SpecStateChange : onStateChange (main.js) fed with the states a manager *)
(*               publishes and with writes of others.                      *)
(* SpecUnload  : onUnload (main.js) over the adapter's auto-scan timer,    *)
(*               pairing sessions and device managers.                     *)
(* SpecPush    : the stdout 'data' listener of startPushUpdates fed with   *)
(*               the lines of a push process, cut into chunks anywhere.    *)
(* SpecCreds   : _extractCredentials and the exit handlers of pairStart /  *)
(*               pairFinish applied to the output a pairing process has    *)
(*               written.                                                  *)
(* SpecApi     : sendCommand / getPowerState / getAppList / isReachable    *)
(*               of both backends, for every outcome of the transport.     *)
(* SpecPushProcs : the push-update subprocesses of the PyatvBackend, their *)
(*               error and exit events, stop() and its grace timer.        *)
(* SpecPushStop : the same, with every due grace timer firing.             *)
(* SpecNodePush : startPushUpdates of the NodeBackend                      *)
(*               (lib/backend/node-appletv.js): connection attempt,        *)
(*               listeners, stop().                                        *)
(***************************************************************************)
EXTENDS Integers, Sequences, FiniteSets, TLC

\* ------------------------------------------------------------------ bounds
MaxProcs == 2      \* push processes alive at once
MaxTimers == 2     \* timers of one kind alive at once
MaxTicks == 1      \* poll callbacks in flight at once
MaxBackends == 2   \* PyatvBackend instances used for pairing
MaxPairProcs == 2  \* pairing processes spawned in one run
MaxFinish == 1     \* pairFinish calls that get past the guard in one run
MaxIds == 1        \* device identifiers pairing requests name
MaxLines == 3      \* lines the push process prints in one run
MaxOutput == 4     \* tokens of pairing output handed to _extractCredentials
MaxPushProcs == 2  \* push-update subprocesses spawned in one run
MaxStops == 2      \* stop() calls on one push handle
MaxHandles == 3    \* push handles a NodeBackend hands out in one run
MaxCalls == 2      \* callback invocations counted per handle
MaxManagers == 2   \* device managers the adapter creates
MaxSessions == 2   \* pairing sessions the adapter registers

\* ------------------------------------------------------ program constants
RECONNECT_BASE_DELAY == 5000
RECONNECT_MAX_DELAY == 300000
MAX_RECONNECT_ATTEMPTS == 10

\* output.substring(0, 300) in the rejections of pairStart and pairFinish
EXCERPT_LIMIT == 300

NULL == "null"

\* this._pairProcess = null, as a process number
NoProcess == 0

VARIABLES
    \* DeviceManager fields (constructor, device-manager.js 23-28)
    pushHandle,        \* NULL, or the state of the process the handle wraps:
                       \*   "running" | "exited"
    pollTimer,         \* NULL | "set"
    reconnectTimer,    \* NULL | "set"
    artworkTimer,      \* NULL | "set"
    connected,
    reconnectAttempts,
    \* the runtime the manager lives in
    strayPush,         \* running push processes no handle refers to
    stoppingPush,      \* push processes told to stop that have not exited yet
    pollIntervals,     \* live intervals created by _startPolling
    artworkIntervals,  \* live intervals created by _startArtworkPolling
    timeouts,          \* pending timeouts created by _scheduleReconnect
    ticksInFlight,     \* poll callbacks awaiting getPlaying / getPowerState
    ticksPublishing,   \* poll callbacks awaiting _setState('info.connected', true)
    sinkReliable,      \* whether adapter.setStateAsync never rejects in this run
    \* control positions
    extPlan,           \* the owner: init | ready | cycle | shutdown | closed
    extPc,             \* the owner's call: idle | info | pub | disc
    cbPc,              \* the reconnect-timer callback: idle | disc | info | pub
    \* observation
    lastDelay,         \* delay of the previous arming since reconnectAttempts was 0
    gaveUp,            \* 'Max reconnect attempts reached' was logged since then
    e2e,               \* progress along the push-loss scenarios: 1 push start
                       \*   succeeded, 2 connection lost, 3 reconnect fell back
                       \*   to polling, 4 poll recovered, 7 a later tick failed;
                       \*   5 reconnect spawned a new push process, 6 that
                       \*   process was lost before it delivered anything,
                       \*   8 it delivered an update
    coalesced          \* the last _scheduleReconnect returned at its pending guard

dmVars == <<pushHandle, pollTimer, reconnectTimer, artworkTimer, connected,
            reconnectAttempts, strayPush, stoppingPush, pollIntervals,
            artworkIntervals, timeouts, ticksInFlight, ticksPublishing,
            sinkReliable, extPlan, extPc, cbPc, lastDelay, gaveUp, e2e, coalesced>>

VARIABLES
    \* pairing (pyatv.js pairStart / pairFinish / pairAbort, main.js onMessage)
    backends,          \* number of PyatvBackend instances constructed
    pairProcess,       \* backend -> its _pairProcess (NoProcess or a process)
    proc,              \* pairing process -> its state and its pairStart call
    fin,               \* pairFinish calls that got past the guard
    sessions,          \* identifier -> backend registered in _pairingSessions
    lastOp             \* the backend call made by the last step, if any

pairVars == <<backends, pairProcess, proc, fin, sessions, lastOp>>

VARIABLES
    \* push updates (pyatv.js startPushUpdates, stdout handler)
    written,           \* names of the lines the push process has printed
    wire,              \* printed text not yet delivered to the listener
    buffer,            \* the listener's buffer
    events             \* event types passed to onUpdate, in order

parseVars == <<written, wire, buffer, events>>

VARIABLES
    \* credential extraction (pyatv.js _extractCredentials)
    output,            \* text a pairing process has printed, as tokens
    extracted,         \* what _extractCredentials(output) returned, if called
    exitCall           \* what an exit handler of pairStart / pairFinish did

credVars == <<output, extracted, exitCall>>

VARIABLES
    \* backend calls (pyatv.js, node-appletv.js)
    appletv,           \* NodeBackend.appletv: NULL or the loaded library
    connection,        \* NodeBackend.connection: NULL or "open"
    lastCall           \* the backend call made by the last step and its outcome

apiVars == <<appletv, connection, lastCall>>

VARIABLES
    \* push-update subprocesses (pyatv.js startPushUpdates)
    pushProcs          \* process -> [st, killed, killTimers, stops, reasons]

pushProcVars == <<pushProcs>>

VARIABLES
    \* push updates of the NodeBackend (node-appletv.js startPushUpdates)
    nodeHandles,       \* handle -> [st, attempt, stopped, calls, late]
    listeners          \* handles whose listeners are attached to a connection

nodePushVars == <<nodeHandles, listeners>>

VARIABLES
    \* the adapter (main.js)
    successor,         \* the manager _storePairCredentials creates for the
                       \* device: none | connecting | push | poll
    stateChange,       \* the state change last handed to onStateChange and
                       \* the manager method it called
    unload             \* the adapter's auto-scan timer, pairing sessions and
                       \* managers, and the progress of onUnload

adapterVars == <<successor, stateChange, unload>>

vars ==
    <<dmVars, pairVars, parseVars, credVars, apiVars, pushProcVars, nodePushVars,
      adapterVars>>

\* What the actions of one part leave alone.
nonDmVars ==
    <<pairVars, parseVars, credVars, apiVars, pushProcVars, nodePushVars,
      adapterVars>>

nonPairVars ==
    <<dmVars, parseVars, credVars, apiVars, pushProcVars, nodePushVars,
      adapterVars>>

nonParseVars ==
    <<dmVars, pairVars, credVars, apiVars, pushProcVars, nodePushVars,
      adapterVars>>

nonCredVars ==
    <<dmVars, pairVars, parseVars, apiVars, pushProcVars, nodePushVars,
      adapterVars>>

nonPushProcVars ==
    <<dmVars, pairVars, parseVars, credVars, apiVars, nodePushVars,
      adapterVars>>

nonNodePushVars ==
    <<dmVars, pairVars, parseVars, credVars, pushProcVars, appletv, lastCall,
      adapterVars>>

nonAdapterVars ==
    <<pairVars, parseVars, credVars, apiVars, pushProcVars, nodePushVars>>

nonApiVars ==
    <<dmVars, pairVars, parseVars, credVars, pushProcVars, nodePushVars,
      adapterVars>>

Min(a, b) == IF a <= b THEN a ELSE b

Count(b) == IF b THEN 1 ELSE 0

\* --------------------------------------------------------------- helpers
\* Push processes that were started and never told to stop.
LivePush == Count(pushHandle = "running") + strayPush

\* Push processes that have not exited.
AlivePush == LivePush + stoppingPush

\* Outcomes of one awaited setStateAsync.
SinkOutcomes == IF sinkReliable THEN {TRUE} ELSE {TRUE, FALSE}

\* ---------------------------------------------- _scheduleReconnect pieces
ReconnectPendingNever(rt) == FALSE

ReconnectPending(rt) == rt # NULL

AttemptsExhaustedOffByOne(k) == k > MAX_RECONNECT_ATTEMPTS

AttemptsExhausted(k) == k >= MAX_RECONNECT_ATTEMPTS

ReconnectDelayLinear(k) == Min(RECONNECT_BASE_DELAY * (k + 1), RECONNECT_MAX_DELAY)

ReconnectDelay(k) == Min(RECONNECT_BASE_DELAY * (2 ^ k), RECONNECT_MAX_DELAY)

ScheduleReconnect ==
    IF ReconnectPending(reconnectTimer)
    THEN /\ coalesced' = TRUE
         /\ UNCHANGED <<reconnectTimer, timeouts, lastDelay, reconnectAttempts, gaveUp>>
    ELSE IF AttemptsExhausted(reconnectAttempts)
    THEN /\ gaveUp' = TRUE
         /\ coalesced' = FALSE
         /\ UNCHANGED <<reconnectTimer, timeouts, lastDelay, reconnectAttempts>>
    ELSE /\ timeouts < MaxTimers
         /\ coalesced' = FALSE
         /\ reconnectTimer' = "set"
         /\ timeouts' = timeouts + 1
         /\ lastDelay' = ReconnectDelay(reconnectAttempts)
         /\ reconnectAttempts' = reconnectAttempts + 1
         /\ UNCHANGED gaveUp

\* ------------------------------------------------------------ disconnect
\* The synchronous part of disconnect(), up to its awaited _setState.
\* rt and pending are reconnectTimer and the pending timeouts on entry.
\* handle.stop() writes the newline and arms the SIGTERM timer: the process
\* is told to stop; stop() on an exited process does nothing.
DisconnectBody(rt, pending) ==
    /\ stoppingPush' = stoppingPush + Count(pushHandle = "running")
    /\ pushHandle' = NULL
    /\ pollIntervals' = pollIntervals - Count(pollTimer # NULL)
    /\ pollTimer' = NULL
    /\ timeouts' = pending - Count(rt # NULL)
    /\ reconnectTimer' = NULL
    /\ artworkIntervals' = artworkIntervals - Count(artworkTimer # NULL)
    /\ artworkTimer' = NULL
    /\ connected' = FALSE
    /\ UNCHANGED <<strayPush, reconnectAttempts, lastDelay, gaveUp>>

\* --------------------------------------------------------------- connect
\* this.pollTimer = setInterval(...): the field is overwritten, an interval
\* it referred to keeps running.
StartPolling ==
    /\ pollIntervals < MaxTimers
    /\ pollTimer' = "set"
    /\ pollIntervals' = pollIntervals + 1

StartArtworkPolling ==
    /\ artworkIntervals < MaxTimers
    /\ artworkTimer' = "set"
    /\ artworkIntervals' = artworkIntervals + 1

\* connect() resumed after _updateDeviceInfo: the try block up to the
\* awaited _setState, or the catch block when startPushUpdates throws.
ConnectPush(spawnOk) ==
    IF spawnOk
    THEN /\ AlivePush < MaxProcs
         /\ pushHandle' = "running"
         /\ strayPush' = strayPush + Count(pushHandle = "running")
         /\ connected' = TRUE
         /\ reconnectAttempts' = 0
         /\ lastDelay' = 0
         /\ gaveUp' = FALSE
         /\ UNCHANGED <<pollTimer, pollIntervals>>
    ELSE /\ StartPolling
         /\ UNCHANGED <<pushHandle, strayPush, connected, reconnectAttempts,
                        lastDelay, gaveUp>>

\* connect() resumed after _setState('info.connected', true).
ConnectPublished(sinkOk) ==
    IF sinkOk
    THEN /\ StartArtworkPolling
         /\ UNCHANGED <<pollTimer, pollIntervals>>
    ELSE /\ StartPolling
         /\ UNCHANGED <<artworkTimer, artworkIntervals>>

\* ------------------------------------------------------------------ Init
InitDM ==
    /\ pushHandle = NULL
    /\ pollTimer = NULL
    /\ reconnectTimer = NULL
    /\ artworkTimer = NULL
    /\ connected = FALSE
    /\ reconnectAttempts = 0
    /\ strayPush = 0
    /\ stoppingPush = 0
    /\ pollIntervals = 0
    /\ artworkIntervals = 0
    /\ timeouts = 0
    /\ ticksInFlight = 0
    /\ ticksPublishing = 0
    /\ sinkReliable \in BOOLEAN
    /\ extPlan = "init"
    /\ extPc = "idle"
    /\ cbPc = "idle"
    /\ lastDelay = 0
    /\ gaveUp = FALSE
    /\ e2e = 0
    /\ coalesced = FALSE

\* Nothing but the manager's own push session exists: no timer pending, no
\* callback or poll tick in flight, no other process.
Quiet ==
    /\ timeouts = 0 /\ pollIntervals = 0 /\ strayPush = 0 /\ stoppingPush = 0
    /\ cbPc = "idle" /\ ticksInFlight = 0 /\ ticksPublishing = 0

\* ------------------------------------------------------------ the owner
\* _initDevice: the first connect() of a fresh manager, up to the await of
\* _updateDeviceInfo.
ExtConnectCall ==
    /\ extPlan = "init" /\ extPc = "idle"
    /\ extPc' = "info"
    /\ e2e' = 0
    /\ UNCHANGED <<pushHandle, pollTimer, reconnectTimer, artworkTimer, connected,
                   reconnectAttempts, strayPush, stoppingPush, pollIntervals,
                   artworkIntervals, timeouts, ticksInFlight, ticksPublishing,
                   sinkReliable, extPlan, cbPc, lastDelay, gaveUp>>
    /\ UNCHANGED coalesced
    /\ UNCHANGED nonDmVars

ExtConnectPush ==
    /\ extPc = "info"
    /\ \E spawnOk \in BOOLEAN :
          /\ ConnectPush(spawnOk)
          /\ extPc' = IF spawnOk THEN "pub" ELSE "idle"
          /\ extPlan' = IF spawnOk THEN extPlan ELSE "ready"
    /\ e2e' = 0
    /\ UNCHANGED <<reconnectTimer, artworkTimer, stoppingPush, artworkIntervals,
                   timeouts, ticksInFlight, ticksPublishing, sinkReliable, cbPc>>
    /\ UNCHANGED coalesced
    /\ UNCHANGED nonDmVars

ExtConnectPublished ==
    /\ extPc = "pub"
    /\ \E sinkOk \in SinkOutcomes :
          /\ ConnectPublished(sinkOk)
          /\ e2e' = IF sinkOk /\ Quiet /\ reconnectTimer = NULL
                       /\ pushHandle = "running" /\ connected
                    THEN 1 ELSE 0
    /\ extPc' = "idle"
    /\ extPlan' = "ready"
    /\ UNCHANGED <<pushHandle, reconnectTimer, connected, reconnectAttempts, strayPush,
                   stoppingPush, timeouts, ticksInFlight, ticksPublishing,
                   sinkReliable, cbPc, lastDelay, gaveUp>>
    /\ UNCHANGED coalesced
    /\ UNCHANGED nonDmVars

\* disconnect() called by the owner, to be followed at once by connect().
ExtCycle ==
    /\ extPlan = "ready" /\ extPc = "idle"
    /\ DisconnectBody(reconnectTimer, timeouts)
    /\ extPlan' = "cycle"
    /\ extPc' = "disc"
    /\ e2e' = 0
    /\ UNCHANGED <<ticksInFlight, ticksPublishing, sinkReliable, cbPc>>
    /\ UNCHANGED coalesced
    /\ UNCHANGED nonDmVars

\* disconnect() called by the owner for good (onUnload, _storePairCredentials).
ExtShutdown ==
    /\ extPlan = "ready" /\ extPc = "idle"
    /\ DisconnectBody(reconnectTimer, timeouts)
    /\ extPlan' = "shutdown"
    /\ extPc' = "disc"
    /\ e2e' = 0
    /\ UNCHANGED <<ticksInFlight, ticksPublishing, sinkReliable, cbPc>>
    /\ UNCHANGED coalesced
    /\ UNCHANGED nonDmVars

\* The owner's disconnect() settles; in a cycle connect() follows at once,
\* unless disconnect() rejected.
ExtDisconnected ==
    /\ extPc = "disc"
    /\ \E sinkOk \in SinkOutcomes :
          IF extPlan = "cycle"
          THEN /\ extPc' = IF sinkOk THEN "info" ELSE "idle"
               /\ extPlan' = IF sinkOk THEN "cycle" ELSE "ready"
          ELSE /\ extPc' = "idle"
               /\ extPlan' = "closed"
    /\ e2e' = 0
    /\ UNCHANGED <<pushHandle, pollTimer, reconnectTimer, artworkTimer, connected,
                   reconnectAttempts, strayPush, stoppingPush, pollIntervals,
                   artworkIntervals, timeouts, ticksInFlight, ticksPublishing,
                   sinkReliable, cbPc, lastDelay, gaveUp>>
    /\ UNCHANGED coalesced
    /\ UNCHANGED nonDmVars

\* ------------------------------------------- the reconnect-timer callback
\* A timeout fires: reconnectTimer = null, then disconnect() up to its await.
\* One callback runs at a time: the shortest delay is RECONNECT_BASE_DELAY.
ReconnectFire ==
    /\ cbPc = "idle"
    /\ timeouts > 0
    /\ DisconnectBody(NULL, timeouts - 1)
    /\ cbPc' = "disc"
    /\ e2e' = IF e2e = 2 THEN 2 ELSE 0
    /\ UNCHANGED <<ticksInFlight, ticksPublishing, sinkReliable, extPlan, extPc>>
    /\ UNCHANGED coalesced
    /\ UNCHANGED nonDmVars

\* The callback's disconnect() settles: connect() on success, the catch
\* block (_scheduleReconnect) on rejection.
CbDisconnected ==
    /\ cbPc = "disc"
    /\ \E sinkOk \in SinkOutcomes :
          IF sinkOk
          THEN /\ cbPc' = "info"
               /\ e2e' = IF e2e = 2 THEN 2 ELSE 0
               /\ UNCHANGED <<reconnectTimer, timeouts, lastDelay, gaveUp,
                              reconnectAttempts, coalesced>>
          ELSE /\ ScheduleReconnect
               /\ cbPc' = "idle"
               /\ e2e' = 0
    /\ UNCHANGED <<pushHandle, pollTimer, artworkTimer, connected, strayPush,
                   stoppingPush, pollIntervals, artworkIntervals, ticksInFlight,
                   ticksPublishing, sinkReliable, extPlan, extPc>>
    /\ UNCHANGED nonDmVars

CbConnectPush ==
    /\ cbPc = "info"
    /\ \E spawnOk \in BOOLEAN :
          /\ ConnectPush(spawnOk)
          /\ cbPc' = IF spawnOk THEN "pub" ELSE "idle"
          /\ e2e' = IF e2e = 2 THEN (IF spawnOk THEN 5 ELSE 3) ELSE 0
    /\ UNCHANGED <<reconnectTimer, artworkTimer, stoppingPush, artworkIntervals,
                   timeouts, ticksInFlight, ticksPublishing, sinkReliable, extPlan,
                   extPc>>
    /\ UNCHANGED coalesced
    /\ UNCHANGED nonDmVars

CbConnectPublished ==
    /\ cbPc = "pub"
    /\ \E sinkOk \in SinkOutcomes :
          /\ ConnectPublished(sinkOk)
          /\ e2e' = IF e2e = 5 /\ sinkOk THEN 5 ELSE 0
    /\ cbPc' = "idle"
    /\ UNCHANGED <<pushHandle, reconnectTimer, connected, reconnectAttempts, strayPush,
                   stoppingPush, timeouts, ticksInFlight, ticksPublishing,
                   sinkReliable, extPlan, extPc, lastDelay, gaveUp>>
    /\ UNCHANGED coalesced
    /\ UNCHANGED nonDmVars

\* ------------------------------------------------ push process events
\* _handlePushEvent for a connection event with connected = false.
HandleConnectionLost ==
    /\ connected' = FALSE
    /\ ScheduleReconnect

\* The push processes an event can come from.
PushSources ==
    {w \in {"handle", "stray", "stopping"} :
        \/ w = "handle" /\ pushHandle = "running"
        \/ w = "stray" /\ strayPush > 0
        \/ w = "stopping" /\ stoppingPush > 0}

\* A push process exits (on its own, after the stop newline, or killed):
\* its exit handler delivers the terminal connection event.
ProcExit ==
    /\ \E w \in PushSources :
           /\ pushHandle' = IF w = "handle" THEN "exited" ELSE pushHandle
           /\ strayPush' = strayPush - Count(w = "stray")
           /\ stoppingPush' = stoppingPush - Count(w = "stopping")
           /\ HandleConnectionLost
           /\ e2e' = IF e2e = 1 /\ w = "handle" THEN 2
                    ELSE IF e2e = 5 /\ w = "handle" THEN 6 ELSE 0
           /\ UNCHANGED <<pollTimer, artworkTimer, pollIntervals, artworkIntervals,
                          ticksInFlight, ticksPublishing, sinkReliable, extPlan, extPc,
                          cbPc>>
    /\ UNCHANGED nonDmVars

\* A push process prints a success line carrying a connection field.
ProcConnLine ==
    /\ \E w \in PushSources :
           /\ HandleConnectionLost
           /\ e2e' = IF e2e = 1 /\ w = "handle" THEN 2
                    ELSE IF e2e = 5 /\ w = "handle" THEN 6 ELSE 0
           /\ UNCHANGED <<pushHandle, pollTimer, artworkTimer, strayPush, stoppingPush,
                          pollIntervals, artworkIntervals, ticksInFlight,
                          ticksPublishing, sinkReliable, extPlan, extPc, cbPc>>
    /\ UNCHANGED nonDmVars

\* A push process prints a success line with power, playing or volume
\* fields: _handlePushEvent publishes them and touches no field.
ProcDataLine ==
    /\ PushSources # {}
    /\ e2e' = IF e2e = 5 THEN 8 ELSE IF e2e = 8 THEN 0 ELSE e2e
    /\ UNCHANGED <<pushHandle, pollTimer, reconnectTimer, artworkTimer, connected,
                   reconnectAttempts, strayPush, stoppingPush, pollIntervals,
                   artworkIntervals, timeouts, ticksInFlight, ticksPublishing,
                   sinkReliable, extPlan, extPc, cbPc, lastDelay, gaveUp, coalesced>>
    /\ UNCHANGED nonDmVars

\* ------------------------------------------------------------ poll ticks
\* A live poll interval fires: the callback starts and awaits the backend.
PollTick ==
    /\ pollIntervals > 0
    /\ ticksInFlight + ticksPublishing < MaxTicks
    /\ ticksInFlight' = ticksInFlight + 1
    /\ e2e' = IF e2e \in {3, 4} THEN e2e ELSE 0
    /\ UNCHANGED <<pushHandle, pollTimer, reconnectTimer, artworkTimer, connected,
                   reconnectAttempts, strayPush, stoppingPush, pollIntervals,
                   artworkIntervals, timeouts, ticksPublishing, sinkReliable,
                   extPlan, extPc, cbPc, lastDelay, gaveUp>>
    /\ UNCHANGED coalesced
    /\ UNCHANGED nonDmVars

\* A tick that got through its awaits finds the manager disconnected.
PollRecoveredKeepsAttempts ==
    /\ connected' = TRUE
    /\ UNCHANGED <<reconnectAttempts, lastDelay, gaveUp>>

PollRecovered ==
    /\ connected' = TRUE
    /\ reconnectAttempts' = 0
    /\ lastDelay' = 0
    /\ gaveUp' = FALSE

\* The awaited getPlaying / _updatePlayingStates / getPowerState / _setState
\* of a tick settle: the rest of the try block, or the catch block.
PollFailedIgnored == UNCHANGED <<connected, reconnectAttempts, lastDelay, gaveUp>>

\* The catch block of a tick: if (this.connected) this.connected = false.
PollFailed ==
    /\ connected' = FALSE
    /\ UNCHANGED <<reconnectAttempts, lastDelay, gaveUp>>

PollTickSettles(ok) ==
    /\ ticksInFlight > 0
    /\ ticksInFlight' = ticksInFlight - 1
    /\ IF ok
       THEN IF ~connected
            THEN /\ PollRecovered
                 /\ ticksPublishing' = ticksPublishing + 1
            ELSE UNCHANGED <<connected, reconnectAttempts, lastDelay, gaveUp,
                             ticksPublishing>>
       ELSE /\ PollFailed
            /\ UNCHANGED ticksPublishing
    /\ e2e' = IF e2e = 3 THEN (IF ok THEN 4 ELSE 3)
              ELSE IF e2e = 4 THEN (IF ok THEN 4 ELSE 7)
              ELSE 0
    /\ UNCHANGED <<pushHandle, pollTimer, reconnectTimer, artworkTimer, strayPush,
                   stoppingPush, pollIntervals, artworkIntervals, timeouts,
                   sinkReliable, extPlan, extPc, cbPc>>
    /\ UNCHANGED coalesced
    /\ UNCHANGED nonDmVars

PollTickDone ==
    /\ ticksInFlight > 0
    /\ \E ok \in BOOLEAN : PollTickSettles(ok)

\* The tick's _setState('info.connected', true) settles; a rejection lands in
\* the catch block.
PollTickPublished ==
    /\ ticksPublishing > 0
    /\ ticksPublishing' = ticksPublishing - 1
    /\ \E sinkOk \in SinkOutcomes :
          /\ connected' = IF sinkOk THEN connected ELSE FALSE
          /\ e2e' = IF e2e = 4 /\ sinkOk THEN 4 ELSE 0
    /\ UNCHANGED <<pushHandle, pollTimer, reconnectTimer, artworkTimer,
                   reconnectAttempts, strayPush, stoppingPush, pollIntervals,
                   artworkIntervals, timeouts, ticksInFlight, sinkReliable, extPlan,
                   extPc, cbPc, lastDelay, gaveUp>>
    /\ UNCHANGED coalesced
    /\ UNCHANGED nonDmVars

(***************************************************************************)
(* Pairing: PyatvBackend.pairStart / pairFinish / pairAbort.               *)
(***************************************************************************)
Backends == 1..MaxBackends

PairProcs == 1..MaxPairProcs

FinCalls == 1..MaxFinish

Identifiers == 1..MaxIds

\* A process record that stands for no process yet.  st: free | running |
\* exited | failed (spawn error); killed: kill() delivered a signal to it;
\* prompt / creds: what the output accumulated by its pairStart call holds;
\* sres / stimer: that call's outcome and whether its 30 s timer is pending;
\* pins: lines written to its stdin; ident: the request's identifier, 0 when
\* the backend was called directly.
FreeProc ==
    [st |-> "free", killed |-> FALSE, backend |-> 0, ident |-> 0,
     prompt |-> FALSE, creds |-> FALSE, sres |-> "none", stimer |-> FALSE,
     pins |-> 0]

\* A pairFinish call record: the process it attached to, its outcome, its
\* timer, and whether the output it collected holds credentials.
FreeFin ==
    [res |-> "free", proc |-> 0, backend |-> 0, ident |-> 0, timer |-> FALSE,
     creds |-> FALSE]

NoOp == [op |-> "none", b |-> 0, res |-> "none"]

Spawned == Cardinality({p \in PairProcs : proc[p].st # "free"})

FinCount == Cardinality({f \in FinCalls : fin[f].res # "free"})

SettleAgain(res, outcome) == outcome

\* if (!resolved) { resolved = true; resolve(...) or reject(...) }: the
\* outcome of a call changes only while the call is pending.
SettleOnce(res, outcome) == IF res = "pending" THEN outcome ELSE res

\* A pairing process that runs and has not been sent a signal.
LiveProc(P, p) == p # NoProcess /\ P[p].st = "running" /\ ~P[p].killed

\* ChildProcess.kill: delivers the signal and sets killed only while the
\* process runs; on an exited or never started process it returns false.
Kill(P, p) == IF P[p].st = "running" THEN [P EXCEPT ![p].killed = TRUE] ELSE P

\* The guard of pairAbort.
AbortGuard(P, ref) == ref # NoProcess /\ ~P[ref].killed

PairAbortKeepsRef(P, ref) == ref

\* pairAbort: the process table and the reference it leaves.
PairAbortRef(P, ref) == IF AbortGuard(P, ref) THEN NoProcess ELSE ref

PairAbortProcs(P, ref) == IF AbortGuard(P, ref) THEN Kill(P, ref) ELSE P

PairAbort(b) ==
    /\ proc' = PairAbortProcs(proc, pairProcess[b])
    /\ pairProcess' = [pairProcess EXCEPT ![b] = PairAbortRef(proc, @)]
    /\ lastOp' = [op |-> "pairAbort", b |-> b, res |-> "ok"]
    /\ UNCHANGED fin

\* pairStart: pairAbort(), then spawn; a spawn error is emitted before
\* anything else can happen and rejects the call.
PairStart(b, i, spawnOk) ==
    /\ Spawned < MaxPairProcs
    /\ LET p == Spawned + 1
           P1 == PairAbortProcs(proc, pairProcess[b])
       IN /\ proc' = [P1 EXCEPT ![p] =
                        [st |-> IF spawnOk THEN "running" ELSE "failed",
                         killed |-> FALSE, backend |-> b, ident |-> i,
                         prompt |-> FALSE, creds |-> FALSE,
                         sres |-> IF spawnOk THEN "pending" ELSE "spawnError",
                         stimer |-> spawnOk, pins |-> 0]]
          /\ pairProcess' = [pairProcess EXCEPT ![b] = p]
          /\ lastOp' = [op |-> "pairStart", b |-> b,
                        res |-> IF spawnOk THEN "pending" ELSE "spawnError"]
    /\ UNCHANGED fin

NoActiveProcessNever(P, ref) == FALSE

\* The guard of pairFinish.
NoActiveProcess(P, ref) == ref = NoProcess \/ P[ref].killed

\* pairFinish(pin): throws at the guard, or arms its timer, attaches its
\* listeners to this._pairProcess and writes the PIN line.  The write throws
\* only on a process that never started (writeThrows).
PairFinish(b, i, writeThrows) ==
    LET ref == pairProcess[b] IN
    IF NoActiveProcess(proc, ref)
    THEN /\ lastOp' = [op |-> "pairFinish", b |-> b, res |-> "NoActiveSession"]
         /\ UNCHANGED <<proc, pairProcess, fin>>
    ELSE /\ FinCount < MaxFinish
         /\ LET f == FinCount + 1
                res == IF ref = NoProcess THEN "typeError"
                       ELSE IF proc[ref].st = "failed" /\ writeThrows
                       THEN "sendFailed" ELSE "pending"
            IN /\ fin' = [fin EXCEPT ![f] =
                            [res |-> res, proc |-> ref, backend |-> b,
                             ident |-> i, timer |-> res # "sendFailed",
                             creds |-> FALSE]]
               /\ proc' = IF res = "pending"
                          THEN [proc EXCEPT ![ref].pins = @ + 1] ELSE proc
               /\ lastOp' = [op |-> "pairFinish", b |-> b, res |-> res]
         /\ UNCHANGED pairProcess

\* The pairFinish calls whose listeners are attached to process p.
Attached(p) == {f \in FinCalls : fin[f].res # "free" /\ fin[f].proc = p}

\* The exit handler of pairFinish: credentials found in the collected
\* output, else exit code 0, resolve with paired; otherwise reject.
FinishOutcome(creds, code) == IF creds \/ code = 0 THEN "paired" ELSE "failed"

\* The exit handler of pairStart for a call not yet settled.
StartExitOutcome(creds) == IF creds THEN "paired" ELSE "failed"

\* A pairing process writes a chunk to stdout or stderr: the data listeners
\* of its pairStart call and of the attached pairFinish calls run; the
\* startPairing handler awaiting the call registers the session.
PairData ==
    \E p \in PairProcs, kind \in {"prompt", "creds"} :
        /\ proc[p].st = "running"
        /\ LET q == proc[p]
               settles == q.sres = "pending" /\ (q.prompt \/ kind = "prompt")
           IN /\ proc' = [proc EXCEPT ![p] =
                            [q EXCEPT !.prompt = @ \/ kind = "prompt",
                                      !.creds = @ \/ kind = "creds",
                                      !.sres = IF q.prompt \/ kind = "prompt"
                                               THEN SettleOnce(@, "awaitingPin")
                                               ELSE @,
                                      !.stimer = IF settles THEN FALSE ELSE @]]
              /\ fin' = [f \in FinCalls |->
                            IF f \in Attached(p)
                            THEN [fin[f] EXCEPT !.creds = @ \/ kind = "creds"]
                            ELSE fin[f]]
              /\ sessions' = IF settles /\ q.ident # 0
                             THEN [sessions EXCEPT ![q.ident] = q.backend]
                             ELSE sessions
        /\ lastOp' = NoOp
        /\ UNCHANGED <<backends, pairProcess>>
        /\ UNCHANGED nonPairVars

\* A pairing process exits with a code: the exit handlers of its pairStart
\* call and of the attached pairFinish calls run; a submitPin handler whose
\* pairFinish resolved deletes the session.
PairExit ==
    \E p \in PairProcs, code \in {0, 1} :
        /\ proc[p].st = "running"
        /\ LET q == proc[p]
               settling == {f \in Attached(p) : fin[f].res = "pending"}
               paired == {f \in settling : FinishOutcome(fin[f].creds, code) = "paired"}
           IN /\ proc' = [proc EXCEPT ![p] =
                            [q EXCEPT !.st = "exited",
                                      !.stimer = FALSE,
                                      !.sres = SettleOnce(@, StartExitOutcome(q.creds))]]
              /\ fin' = [f \in FinCalls |->
                            IF f \in Attached(p)
                            THEN [fin[f] EXCEPT
                                    !.timer = FALSE,
                                    !.res = SettleOnce(@, FinishOutcome(fin[f].creds,
                                                                        code))]
                            ELSE fin[f]]
              /\ pairProcess' = [b \in Backends |->
                                    IF \E f \in settling : fin[f].backend = b
                                    THEN NoProcess ELSE pairProcess[b]]
              /\ sessions' = [i \in Identifiers |->
                                 IF \E f \in paired : fin[f].ident = i
                                 THEN 0 ELSE sessions[i]]
        /\ lastOp' = NoOp
        /\ UNCHANGED backends
        /\ UNCHANGED nonPairVars

TimeoutIgnored(res) == res

\* The callback of a 30 s timer: if (!resolved) { resolved = true; ...
\* reject(timeout error) }.
TimeoutOutcome(res) == SettleOnce(res, "timeout")

\* The 30 s timer of a pairStart call fires.
PairStartTimeout ==
    \E p \in PairProcs :
        /\ proc[p].stimer
        /\ LET q == proc[p]
               b == q.backend
               P1 == [proc EXCEPT ![p].stimer = FALSE,
                                  ![p].sres = TimeoutOutcome(@)]
           IN IF q.sres = "pending"
              THEN /\ proc' = PairAbortProcs(P1, pairProcess[b])
                   /\ pairProcess' = [pairProcess EXCEPT ![b] = PairAbortRef(proc, @)]
              ELSE /\ proc' = P1
                   /\ UNCHANGED pairProcess
        /\ lastOp' = NoOp
        /\ UNCHANGED <<backends, fin, sessions>>
        /\ UNCHANGED nonPairVars

\* The 30 s timer of a pairFinish call fires.
PairFinishTimeout ==
    \E f \in FinCalls :
        /\ fin[f].timer
        /\ LET b == fin[f].backend
           IN IF fin[f].res = "pending"
              THEN /\ fin' = [fin EXCEPT ![f].timer = FALSE,
                                         ![f].res = TimeoutOutcome(@)]
                   /\ proc' = PairAbortProcs(proc, pairProcess[b])
                   /\ pairProcess' = [pairProcess EXCEPT ![b] = PairAbortRef(proc, @)]
              ELSE /\ fin' = [fin EXCEPT ![f].timer = FALSE,
                                         ![f].res = TimeoutOutcome(@)]
                   /\ UNCHANGED <<proc, pairProcess>>
        /\ lastOp' = NoOp
        /\ UNCHANGED <<backends, sessions>>
        /\ UNCHANGED nonPairVars

\* ------------------------------------------------- calls made on a backend
CallPairStart ==
    \E b \in 1..backends, spawnOk \in BOOLEAN :
        /\ PairStart(b, 0, spawnOk)
        /\ UNCHANGED <<backends, sessions>>
        /\ UNCHANGED nonPairVars

CallPairFinish ==
    \E b \in 1..backends, writeThrows \in BOOLEAN :
        /\ PairFinish(b, 0, writeThrows)
        /\ UNCHANGED <<backends, sessions>>
        /\ UNCHANGED nonPairVars

CallPairAbort ==
    \E b \in 1..backends :
        /\ PairAbort(b)
        /\ UNCHANGED <<backends, sessions>>
        /\ UNCHANGED nonPairVars

\* ------------------------------------------ the adapter's message handlers
\* startPairing: a new PyatvBackend, then pairStart on it.
StartPairing ==
    \E i \in Identifiers, spawnOk \in BOOLEAN :
        /\ backends < MaxBackends
        /\ backends' = backends + 1
        /\ PairStart(backends + 1, i, spawnOk)
        /\ UNCHANGED sessions
        /\ UNCHANGED nonPairVars

\* submitPin with a four-character PIN: an error answer without a session,
\* else pairFinish on the registered backend.
SubmitPin ==
    \E i \in Identifiers, writeThrows \in BOOLEAN :
        /\ IF sessions[i] = 0
           THEN /\ lastOp' = NoOp
                /\ UNCHANGED <<proc, pairProcess, fin>>
           ELSE PairFinish(sessions[i], i, writeThrows)
        /\ UNCHANGED <<backends, sessions>>
        /\ UNCHANGED nonPairVars

\* The answer { status: 'aborted' } to the abortPairing request for
\* identifier i, sent without a call on any backend.
AbortedUnregistered(i) == [op |-> "abortPairing", b |-> i, res |-> "aborted"]

\* abortPairing: pairAbort on the registered backend, then delete the entry;
\* the answer is aborted with or without an entry.
AbortPairing ==
    \E i \in Identifiers :
        /\ IF sessions[i] = 0
           THEN /\ lastOp' = AbortedUnregistered(i)
                /\ UNCHANGED <<proc, pairProcess, fin, sessions>>
           ELSE /\ PairAbort(sessions[i])
                /\ sessions' = [sessions EXCEPT ![i] = 0]
        /\ UNCHANGED backends
        /\ UNCHANGED nonPairVars

\* ------------------------------------------------------------------ Init
\* n backends constructed, nothing spawned, no session registered.
InitPairing(n) ==
    /\ backends = n
    /\ pairProcess = [b \in Backends |-> NoProcess]
    /\ proc = [p \in PairProcs |-> FreeProc]
    /\ fin = [f \in FinCalls |-> FreeFin]
    /\ sessions = [i \in Identifiers |-> 0]
    /\ lastOp = NoOp

\* The manager as constructed, with a state sink that does not reject.
DMIdle == InitDM /\ sinkReliable

(***************************************************************************)
(* The stdout handler of PyatvBackend.startPushUpdates.                    *)
(*                                                                         *)
(* Text is a sequence of tokens: "O" is {"result":"success" and "E" is     *)
(* {"result":"error" (an object opened with its result member), "P" "T"    *)
(* "D" "V" "C" are the members ,"power_state":.. ,"title":..               *)
(* ,"device_state":.. ,"volume":.. ,"connection":.. , "}" closes the       *)
(* object, "N" is the text null, "x" is a character that starts no JSON    *)
(* value, " " a blank and "\n" a newline.  Member values are of the types  *)
(* atvscript prints.                                                       *)
(***************************************************************************)
FieldTokens == {"P", "T", "D", "V", "C"}

\* The lines the push process prints, by name.
LineText(name) ==
    CASE name = "power" -> <<"O", "P", "}">>
      [] name = "volume" -> <<"O", "V", "}">>
      [] name = "both" -> <<"O", " ", "V", "P", "}">>
      [] name = "closed" -> <<"O", "C", "}">>
      [] name = "state" -> <<"O", "D", "}">>
      [] name = "full" -> <<"O", "C", "V", "T", "P", "}">>
      [] name = "bare" -> <<"O", "}">>
      [] name = "error" -> <<"E", "P", "}">>
      [] name = "truncated" -> <<"O", "P">>
      [] name = "garbage" -> <<"x">>
      [] name = "null" -> <<"N">>
      [] name = "blank" -> <<" ">>

LineNames ==
    {"power", "volume", "both", "closed", "state", "full", "bare",
     "error", "truncated", "garbage", "null", "blank"}

\* s without its blanks: JSON.parse skips whitespace between tokens, and
\* line.trim() is empty exactly when nothing else is in the line.
RECURSIVE Strip(_)
Strip(s) ==
    IF s = <<>> THEN <<>>
    ELSE IF Head(s) = " " THEN Strip(Tail(s)) ELSE <<Head(s)>> \o Strip(Tail(s))

\* buffer.split('\n'): the pieces between newlines, at least one.
RECURSIVE Split(_)
Split(s) ==
    IF \A k \in 1..Len(s) : s[k] # "\n" THEN <<s>>
    ELSE LET k == CHOOSE j \in 1..Len(s) :
                      s[j] = "\n" /\ \A h \in 1..(j - 1) : s[h] # "\n"
         IN <<SubSeq(s, 1, k - 1)>> \o Split(SubSeq(s, k + 1, Len(s)))

\* JSON.parse(line): an object with its result and members, the value null,
\* or a SyntaxError.
JsonParse(line) ==
    LET t == Strip(line) IN
    IF t = <<"N">> THEN [kind |-> "null", result |-> "none", fields |-> {}]
    ELSE IF /\ Len(t) >= 2
            /\ t[1] \in {"O", "E"}
            /\ t[Len(t)] = "}"
            /\ \A k \in 2..(Len(t) - 1) : t[k] \in FieldTokens
    THEN [kind |-> "object",
          result |-> IF t[1] = "O" THEN "success" ELSE "error",
          fields |-> {t[k] : k \in 2..(Len(t) - 1)}]
    ELSE [kind |-> "SyntaxError", result |-> "none", fields |-> {}]

ProcessPushEventTitleOnly(fields) ==
    (IF "P" \in fields THEN <<"power">> ELSE <<>>)
    \o (IF "T" \in fields THEN <<"playing">> ELSE <<>>)
    \o (IF "V" \in fields THEN <<"volume">> ELSE <<>>)
    \o (IF "C" \in fields THEN <<"connection">> ELSE <<>>)

\* _processPushEvent: the events of one success line, by member presence.
ProcessPushEvent(fields) ==
    (IF "P" \in fields THEN <<"power">> ELSE <<>>)
    \o (IF "T" \in fields \/ "D" \in fields THEN <<"playing">> ELSE <<>>)
    \o (IF "V" \in fields THEN <<"volume">> ELSE <<>>)
    \o (IF "C" \in fields THEN <<"connection">> ELSE <<>>)

ResultAny(v) == TRUE

\* event.result === 'success'
ResultIsSuccess(v) == v.result = "success"

\* One turn of the loop over the lines: blank lines are skipped, a line that
\* does not parse or whose value has no result member to read lands in the
\* catch block, a line not reporting success is logged and skipped.
HandleLine(line) ==
    IF Strip(line) = <<>> THEN <<>>
    ELSE LET v == JsonParse(line) IN
         IF v.kind # "object" THEN <<>>
         ELSE IF ~ResultIsSuccess(v) THEN <<>>
         ELSE ProcessPushEvent(v.fields)

RECURSIVE HandleLines(_)
HandleLines(lines) ==
    IF lines = <<>> THEN <<>>
    ELSE HandleLine(Head(lines)) \o HandleLines(Tail(lines))

\* All but the last element: what is left after lines.pop().
Front(s) == SubSeq(s, 1, Len(s) - 1)

RemainderDropped(lines) == <<>>

\* buffer = lines.pop(): the text after the last newline is kept.
Remainder(lines) == lines[Len(lines)]

\* The push process prints a line.
PushWrite ==
    \E name \in LineNames :
        /\ Len(written) < MaxLines
        /\ written' = Append(written, name)
        /\ wire' = wire \o LineText(name) \o <<"\n">>
        /\ UNCHANGED <<buffer, events>>
        /\ UNCHANGED nonParseVars

\* A chunk of what the process printed reaches the 'data' listener.
StdoutData ==
    \E k \in 1..Len(wire) :
        /\ LET chunk == SubSeq(wire, 1, k)
               lines == Split(buffer \o chunk)
           IN /\ buffer' = Remainder(lines)
              /\ events' = events \o HandleLines(Front(lines))
        /\ wire' = SubSeq(wire, k + 1, Len(wire))
        /\ UNCHANGED written
        /\ UNCHANGED nonParseVars

(***************************************************************************)
(* PyatvBackend._extractCredentials.                                       *)
(*                                                                         *)
(* Output text is a sequence of tokens: "c" is credentials: , "C" is       *)
(* Credentials: , "U" is CREDENTIALS: , "s" is credential: , "H" is a run  *)
(* of 21 hexadecimal digits and colons, "h" a run of 10, "w" a word with a *)
(* letter that is no hexadecimal digit, "L" a run of 300 such words, "P"   *)
(* is Enter PIN , " " a blank and "\n" a newline.                          *)
(***************************************************************************)
OutputTokens == {"c", "C", "U", "s", "H", "h", "w", "L", "P", " ", "\n"}

\* What /[Cc]redentials?:/ matches.
MarkerTokens == {"c", "C", "s"}

\* What /^[0-9a-fA-F:]+$/ accepts.
HexTokens == {"H", "h"}

\* Characters a token stands for, as far as line.length > 20 can tell.
CharLen(t) ==
    CASE t = "H" -> 21
      [] t = "h" -> 10
      [] t \in {"c", "C", "U"} -> 12
      [] t = "s" -> 11
      [] t = "P" -> 9
      [] t = "L" -> 900
      [] t = "w" -> 3
      [] OTHER -> 1

RECURSIVE LineLength(_)
LineLength(s) == IF s = <<>> THEN 0 ELSE CharLen(Head(s)) + LineLength(Tail(s))

RECURSIVE TrimStart(_)
TrimStart(s) == IF s # <<>> /\ Head(s) = " " THEN TrimStart(Tail(s)) ELSE s

RECURSIVE TrimEnd(_)
TrimEnd(s) ==
    IF s # <<>> /\ s[Len(s)] = " " THEN TrimEnd(SubSeq(s, 1, Len(s) - 1)) ELSE s

\* String.prototype.trim
Trim(s) == TrimEnd(TrimStart(s))

\* .map(l => l.trim()).filter(l => l)
RECURSIVE TrimmedNonEmpty(_)
TrimmedNonEmpty(ls) ==
    IF ls = <<>> THEN <<>>
    ELSE (IF Trim(Head(ls)) = <<>> THEN <<>> ELSE <<Trim(Head(ls))>>)
         \o TrimmedNonEmpty(Tail(ls))

NoCredentials == [found |-> FALSE, value |-> <<>>]

Credentials(v) == [found |-> TRUE, value |-> v]

\* line.match(/[Cc]redentials?:\s*(.+)/) can match with the marker at k:
\* anywhere in the line, with at least one character after it.
MarkerMatches(line, k) == line[k] \in MarkerTokens /\ k < Len(line)

\* The match of the regular expression in a line: the leftmost one, its
\* group running to the end of the line.
LineMatch(line) ==
    LET ks == {k \in 1..Len(line) : MarkerMatches(line, k)}
    IN IF ks = {} THEN NoCredentials
       ELSE LET k == CHOOSE j \in ks : \A h \in ks : j <= h
            IN Credentials(Trim(SubSeq(line, k + 1, Len(line))))

\* The first loop: lines top to bottom.
RECURSIVE FirstMatch(_)
FirstMatch(ls) ==
    IF ls = <<>> THEN NoCredentials
    ELSE IF LineMatch(Head(ls)).found THEN LineMatch(Head(ls))
    ELSE FirstMatch(Tail(ls))

LooksLikeCredentials(line) ==
    /\ \A k \in 1..Len(line) : line[k] \in HexTokens
    /\ LineLength(line) > 20

\* The second loop: lines bottom to top.
RECURSIVE LastHexLine(_)
LastHexLine(ls) ==
    IF ls = <<>> THEN NoCredentials
    ELSE IF LooksLikeCredentials(ls[Len(ls)]) THEN Credentials(ls[Len(ls)])
    ELSE LastHexLine(SubSeq(ls, 1, Len(ls) - 1))

ExtractCredentials(out) ==
    LET ls == TrimmedNonEmpty(Split(out))
    IN IF FirstMatch(ls).found THEN FirstMatch(ls) ELSE LastHexLine(ls)

\* String.prototype.trim on a text of several lines: newlines are white
\* space too.
RECURSIVE TrimText(_)
TrimText(s) ==
    IF s # <<>> /\ Head(s) \in {" ", "\n"} THEN TrimText(Tail(s))
    ELSE IF s # <<>> /\ s[Len(s)] \in {" ", "\n"}
    THEN TrimText(SubSeq(s, 1, Len(s) - 1))
    ELSE s

\* output.substring(0, 300), by its length in characters.
Excerpt(out) == IF LineLength(out) < EXCERPT_LIMIT THEN LineLength(out) ELSE EXCERPT_LIMIT

\* output.includes('Enter PIN') || output.includes('pin:')
IncludesPrompt(out) == \E k \in 1..Len(out) : out[k] = "P"

\* output.includes('credentials:') || output.includes('Credentials:')
IncludesCredentials(out) == \E k \in 1..Len(out) : out[k] \in {"c", "C"}

NoExit == [handler |-> "none", code |-> 0, from |-> 0, status |-> "none",
           credentials |-> NoCredentials, excerpt |-> 0, cleared |-> FALSE]

\* The exit handler of pairStart on the output the call accumulated: a
\* call that saw the prompt has resolved with awaitingPin and the handler
\* does nothing more; else paired with what _extractCredentials returns,
\* or a rejection quoting the excerpt.
StartExit(out, code) ==
    IF IncludesPrompt(out)
    THEN [NoExit EXCEPT !.handler = "pairStart", !.code = code,
                        !.status = "awaitingPin"]
    ELSE IF IncludesCredentials(out)
    THEN [NoExit EXCEPT !.handler = "pairStart", !.code = code,
                        !.status = "paired",
                        !.credentials = ExtractCredentials(out)]
    ELSE [NoExit EXCEPT !.handler = "pairStart", !.code = code,
                        !.status = "rejected", !.excerpt = Excerpt(out)]

\* What the data listeners of a pairFinish call attached after k tokens
\* have appended to its own output variable.
Collected(out, k) == SubSeq(out, k + 1, Len(out))

FinishExitStrict(out, code) ==
    IF ExtractCredentials(out).found
    THEN [NoExit EXCEPT !.handler = "pairFinish", !.code = code,
                        !.status = "paired", !.cleared = TRUE,
                        !.credentials = ExtractCredentials(out)]
    ELSE [NoExit EXCEPT !.handler = "pairFinish", !.code = code,
                        !.status = "rejected", !.cleared = TRUE,
                        !.excerpt = Excerpt(out)]

\* The exit handler of a pending pairFinish on the output the call
\* collected: clears _pairProcess, then credentials if extracted, else with
\* exit code 0 the trimmed output, else a rejection quoting the excerpt.
FinishExit(out, code) ==
    IF ExtractCredentials(out).found
    THEN [NoExit EXCEPT !.handler = "pairFinish", !.code = code,
                        !.status = "paired", !.cleared = TRUE,
                        !.credentials = ExtractCredentials(out)]
    ELSE IF code = 0
    THEN [NoExit EXCEPT !.handler = "pairFinish", !.code = code,
                        !.status = "paired", !.cleared = TRUE,
                        !.credentials = Credentials(TrimText(out))]
    ELSE [NoExit EXCEPT !.handler = "pairFinish", !.code = code,
                        !.status = "rejected", !.cleared = TRUE,
                        !.excerpt = Excerpt(out)]

NothingApplied == ~extracted.called /\ exitCall.handler = "none"

\* The pairing process prints one more token.
OutputToken ==
    \E t \in OutputTokens :
        /\ NothingApplied
        /\ Len(output) < MaxOutput
        /\ output' = Append(output, t)
        /\ UNCHANGED <<extracted, exitCall>>
        /\ UNCHANGED nonCredVars

\* An exit handler calls _extractCredentials on what has accumulated.
ExtractCall ==
    /\ NothingApplied
    /\ extracted' = [called |-> TRUE, result |-> ExtractCredentials(output)]
    /\ UNCHANGED <<output, exitCall>>
    /\ UNCHANGED nonCredVars

\* The process exits with a code while its pairStart call is the only one
\* listening: the call's exit handler runs on all the output.
StartExitCall ==
    /\ NothingApplied
    /\ \E code \in {0, 1} : exitCall' = StartExit(output, code)
    /\ UNCHANGED <<output, extracted>>
    /\ UNCHANGED nonCredVars

\* The process exits with a code while a pairFinish call, made when k
\* tokens had been printed, is pending: that call's exit handler runs on
\* what it collected.
FinishExitCall ==
    /\ NothingApplied
    /\ \E code \in {0, 1}, k \in 0..Len(output) :
          exitCall' = [FinishExit(Collected(output, k), code) EXCEPT !.from = k]
    /\ UNCHANGED <<output, extracted>>
    /\ UNCHANGED nonCredVars

InitCreds ==
    /\ output = <<>>
    /\ extracted = [called |-> FALSE, result |-> NoCredentials]
    /\ exitCall = NoExit

(***************************************************************************)
(* Backend calls: getAppList, isReachable, sendCommand on PyatvBackend     *)
(* (lib/backend/pyatv.js) and NodeBackend (lib/backend/node-appletv.js).   *)
(***************************************************************************)
\* Logical command names: in both command maps, in PYATV_COMMAND_MAP only,
\* in neither.
Commands == {"play", "stop", "bogus"}

PYATV_COMMAND_MAP == {"play", "stop"}

NODE_KEY_MAP == {"play"}

\* What execFile hands to its callback: an error or not, and the kind of
\* text on stdout (no JSON, the JSON value null, a failure report, a success
\* report).
StdoutKinds == {"garbage", "null", "failure", "success"}

\* The apps member of an app_list report.
AppsShapes == {"absent", "list", "notArray", "nullElement"}

Resolved(v) == [settled |-> "resolved", value |-> v]

Rejected(e) == [settled |-> "rejected", value |-> e]

\* _execAtvscript: rejects on an exec error, on text JSON.parse refuses, on
\* a value whose result member cannot be read, and on a failure report.
ExecAtvscript(error, stdout) ==
    IF error THEN Rejected("atvscript failed")
    ELSE IF stdout \in {"garbage", "null"} THEN Rejected("Failed to parse")
    ELSE IF stdout = "failure" THEN Rejected("atvscript error")
    ELSE Resolved("result")

\* The error a call met inside, "none" when it met none.
Cause(r) == IF r.settled = "rejected" THEN r.value ELSE "none"

AppListRethrow == Rejected("error")

\* The catch block of PyatvBackend.getAppList.
AppListCatch == Resolved("empty")

PyatvGetAppList(error, stdout, apps) ==
    IF ExecAtvscript(error, stdout).settled = "rejected" THEN AppListCatch
    ELSE IF apps \in {"notArray", "nullElement"} THEN AppListCatch
    ELSE IF apps = "list" THEN Resolved("apps")
    ELSE Resolved("empty")

NodeGetAppList == Resolved("empty")

\* What went wrong inside PyatvBackend.getAppList, "none" if nothing did:
\* the atvscript call, or the mapping of something that is no list of apps.
AppListCause(error, stdout, apps) ==
    IF ExecAtvscript(error, stdout).settled = "rejected" THEN Cause(ExecAtvscript(error, stdout))
    ELSE IF apps \in {"notArray", "nullElement"} THEN "TypeError"
    ELSE "none"

ReachableRethrow == Rejected("error")

\* The catch block of isReachable, the same on both backends.
ReachableCatch == Resolved("false")

\* The power_state member of a power_state report.
PowerStates == {"on", "off", "absent"}

\* PyatvBackend.getPowerState: result.power_state === 'on'.
PyatvGetPowerState(error, stdout, power) ==
    IF ExecAtvscript(error, stdout).settled = "rejected" THEN ExecAtvscript(error, stdout)
    ELSE IF power = "on" THEN Resolved("true")
    ELSE Resolved("false")

\* PyatvBackend.isReachable: getPowerState, whatever state it reports.
PyatvIsReachable(error, stdout, power) ==
    IF PyatvGetPowerState(error, stdout, power).settled = "rejected" THEN ReachableCatch
    ELSE Resolved("true")

\* NodeBackend._ensureConnection: nothing to do with a connection at hand;
\* else the library, the scan, the credentials and openConnection can fail.
EnsureOutcome(conn, lib, scan, credsOk, openOk) ==
    IF conn # NULL THEN Resolved("kept")
    ELSE IF lib = NULL THEN Rejected("not available")
    ELSE IF scan = "rejects" THEN Rejected("scan failed")
    ELSE IF scan = "none" THEN Rejected("not found")
    ELSE IF ~credsOk THEN Rejected("bad credentials")
    ELSE IF ~openOk THEN Rejected("open failed")
    ELSE Resolved("opened")

\* Whether _ensureConnection goes to the network.
EnsureInvokes(conn, lib) == conn = NULL /\ lib # NULL

EnsureConnection(conn, r) == IF r.value = "opened" THEN "open" ELSE conn

NodeIsReachable(r) == IF r.settled = "rejected" THEN ReachableCatch ELSE Resolved("true")

\* NodeBackend.getPowerState: on when a connection can be had.
NodeGetPowerState(r) == IF r.settled = "rejected" THEN Resolved("false") ELSE Resolved("true")

\* PyatvBackend.sendCommand: the mapped name, or the name itself.
PyatvCommand(command) == IF command \in PYATV_COMMAND_MAP THEN "mapped" ELSE "unmapped"

NoCall ==
    [backend |-> "none", op |-> "none", command |-> "none", failure |-> "none",
     invoked |-> FALSE, settled |-> "none", value |-> "none"]

Call(backend, op, command, failure, invoked, r) ==
    [backend |-> backend, op |-> op, command |-> command, failure |-> failure,
     invoked |-> invoked, settled |-> r.settled, value |-> r.value]

PyatvGetAppListCall ==
    \E error \in BOOLEAN, stdout \in StdoutKinds, apps \in AppsShapes :
        /\ lastCall' = Call("pyatv", "getAppList", "none",
                            AppListCause(error, stdout, apps),
                            TRUE, PyatvGetAppList(error, stdout, apps))
        /\ UNCHANGED <<appletv, connection>>
        /\ UNCHANGED nonApiVars

NodeGetAppListCall ==
    /\ lastCall' = Call("node", "getAppList", "none", "none", FALSE, NodeGetAppList)
    /\ UNCHANGED <<appletv, connection>>
    /\ UNCHANGED nonApiVars

PyatvGetPowerStateCall ==
    \E error \in BOOLEAN, stdout \in StdoutKinds, power \in PowerStates :
        /\ lastCall' = Call("pyatv", "getPowerState", "none",
                            Cause(ExecAtvscript(error, stdout)),
                            TRUE, PyatvGetPowerState(error, stdout, power))
        /\ UNCHANGED <<appletv, connection>>
        /\ UNCHANGED nonApiVars

NodeGetPowerStateCall ==
    \E scan \in {"rejects", "none", "found"}, credsOk \in BOOLEAN, openOk \in BOOLEAN :
        LET r == EnsureOutcome(connection, appletv, scan, credsOk, openOk)
        IN /\ lastCall' = Call("node", "getPowerState", "none", Cause(r),
                               EnsureInvokes(connection, appletv), NodeGetPowerState(r))
           /\ connection' = EnsureConnection(connection, r)
           /\ UNCHANGED appletv
           /\ UNCHANGED nonApiVars

PyatvIsReachableCall ==
    \E error \in BOOLEAN, stdout \in StdoutKinds, power \in PowerStates :
        /\ lastCall' = Call("pyatv", "isReachable", "none",
                            Cause(ExecAtvscript(error, stdout)),
                            TRUE, PyatvIsReachable(error, stdout, power))
        /\ UNCHANGED <<appletv, connection>>
        /\ UNCHANGED nonApiVars

NodeIsReachableCall ==
    \E scan \in {"rejects", "none", "found"}, credsOk \in BOOLEAN, openOk \in BOOLEAN :
        LET r == EnsureOutcome(connection, appletv, scan, credsOk, openOk)
        IN /\ lastCall' = Call("node", "isReachable", "none", Cause(r),
                               EnsureInvokes(connection, appletv), NodeIsReachable(r))
           /\ connection' = EnsureConnection(connection, r)
           /\ UNCHANGED appletv
           /\ UNCHANGED nonApiVars

\* PyatvBackend.sendCommand: atvscript runs with the mapped name, or with the
\* name as given when the map has no entry.
PyatvSendCommandCall ==
    \E command \in Commands, error \in BOOLEAN, stdout \in StdoutKinds :
        /\ lastCall' = Call("pyatv", "sendCommand", command,
                            Cause(ExecAtvscript(error, stdout)), TRUE,
                            IF ExecAtvscript(error, stdout).settled = "rejected"
                            THEN ExecAtvscript(error, stdout)
                            ELSE Resolved(PyatvCommand(command)))
        /\ UNCHANGED <<appletv, connection>>
        /\ UNCHANGED nonApiVars

\* NodeBackend.sendCommand: _ensureConnection first, then the key map, the
\* Key enum and sendKeyCommand.
NodeSendCommandCall ==
    \E command \in Commands, scan \in {"rejects", "none", "found"},
       credsOk \in BOOLEAN, openOk \in BOOLEAN, keyKnown \in BOOLEAN, sendOk \in BOOLEAN :
        LET r == EnsureOutcome(connection, appletv, scan, credsOk, openOk)
            out == IF r.settled = "rejected" THEN r
                   ELSE IF command \notin NODE_KEY_MAP THEN Rejected("not supported")
                   ELSE IF ~keyKnown THEN Rejected("key not found")
                   ELSE IF ~sendOk THEN Rejected("send failed")
                   ELSE Resolved("sent")
        IN /\ lastCall' = Call("node", "sendCommand", command, Cause(r),
                               \/ EnsureInvokes(connection, appletv)
                               \/ out.value \in {"send failed", "sent"},
                               out)
           /\ connection' = EnsureConnection(connection, r)
           /\ UNCHANGED appletv
           /\ UNCHANGED nonApiVars

\* The NodeBackend constructor: _loadLibrary finds node-appletv-x or not.
InitApi ==
    /\ appletv \in {NULL, "lib"}
    /\ connection = NULL
    /\ lastCall = NoCall

ApiIdle == InitApi /\ appletv = NULL

(***************************************************************************)
(* Push-update subprocesses of PyatvBackend.startPushUpdates: the error    *)
(* and exit handlers and the stop() of the returned handle.                *)
(***************************************************************************)
PushProcs == 1..MaxPushProcs

\* st: free | running | spawnFailed (spawn failed, 'error' not yet emitted)
\*     | failed ('error' emitted) | exited ('exit' emitted)
\* signals: SIGTERMs delivered to the process
FreePushProc ==
    [st |-> "free", killed |-> FALSE, killTimers |-> 0, stops |-> 0, reasons |-> <<>>,
     signals |-> 0]

\* The callback call of the 'error' handler.
OnErrorEvent(reasons) == Append(reasons, "process_error")

OnExitSilent(reasons) == reasons

\* The callback call of the 'exit' handler.
OnExitEvent(reasons) == Append(reasons, "process_exit")

\* startPushUpdates: spawn; a failed spawn still returns the process object
\* and emits 'error' later.
PushSpawn ==
    \E p \in PushProcs, spawnOk \in BOOLEAN :
        /\ pushProcs[p].st = "free"
        /\ \A q \in PushProcs : q < p => pushProcs[q].st # "free"
        /\ pushProcs' = [pushProcs EXCEPT ![p].st = IF spawnOk THEN "running" ELSE "spawnFailed"]
        /\ UNCHANGED nonPushProcVars

\* proc.on('error'): the spawn failure is reported; no 'exit' follows.
PushProcError ==
    \E p \in PushProcs :
        /\ pushProcs[p].st = "spawnFailed"
        /\ pushProcs' = [pushProcs EXCEPT ![p].st = "failed",
                                          ![p].reasons = OnErrorEvent(@)]
        /\ UNCHANGED nonPushProcVars

\* A success line with a connection member (atvscript prints one when the
\* device closes the connection): _processPushEvent reports its value as the
\* reason.
PushConnectionLine ==
    \E p \in PushProcs :
        /\ pushProcs[p].st = "running"
        /\ "closed" \notin {pushProcs[p].reasons[k] : k \in 1..Len(pushProcs[p].reasons)}
        /\ pushProcs' = [pushProcs EXCEPT ![p].reasons = Append(@, "closed")]
        /\ UNCHANGED nonPushProcVars

\* proc.on('exit'): the process ended, on its own, after the newline of
\* stop(), or by the SIGTERM of the grace timer.
PushProcExit ==
    \E p \in PushProcs :
        /\ pushProcs[p].st = "running"
        /\ pushProcs' = [pushProcs EXCEPT ![p].st = "exited",
                                          ![p].reasons = OnExitEvent(@)]
        /\ UNCHANGED nonPushProcVars

ArmNoTimer(n) == n

\* setTimeout(..., 2000) in stop(): one more pending grace timer.
ArmGraceTimer(n) == n + 1

\* handle.stop(): write the newline, arm the 2 s timer; when the write
\* throws, the catch block swallows it and no timer is armed.
PushStop ==
    \E p \in PushProcs, writeThrows \in BOOLEAN :
        /\ pushProcs[p].st # "free"
        /\ pushProcs[p].stops < MaxStops
        /\ writeThrows => pushProcs[p].st # "running"
        /\ pushProcs' = [pushProcs EXCEPT
                            ![p].stops = @ + 1,
                            ![p].killTimers = IF writeThrows THEN @
                                              ELSE ArmGraceTimer(@)]
        /\ UNCHANGED nonPushProcVars

\* The 2 s timer of a stop() fires: if (!proc.killed) proc.kill('SIGTERM').
\* kill() sets killed only when the signal was delivered to a live process.
PushKillTimer ==
    \E p \in PushProcs :
        /\ pushProcs[p].killTimers > 0
        /\ LET delivered == ~pushProcs[p].killed /\ pushProcs[p].st = "running"
           IN pushProcs' = [pushProcs EXCEPT
                               ![p].killTimers = @ - 1,
                               ![p].killed = @ \/ delivered,
                               ![p].signals = IF delivered THEN @ + 1 ELSE @]
        /\ UNCHANGED nonPushProcVars

InitPushProcs == pushProcs = [p \in PushProcs |-> FreePushProc]

(***************************************************************************)
(* Push updates of NodeBackend.startPushUpdates: the connection attempt,   *)
(* the three listeners and the stop() of the returned handle.              *)
(***************************************************************************)
NodeHandles == 1..MaxHandles

\* st: free | connecting (the promise of _ensureConnection not yet acted on)
\*     | listening (listeners attached) | settled (then or catch returned
\*     without attaching)
\* attempt: how the _ensureConnection call began: kept (a connection was at
\*     hand), noLibrary (it threw at once), scanning (scan in progress)
FreeHandle ==
    [st |-> "free", attempt |-> "none", stopped |-> FALSE, calls |-> 0, late |-> FALSE]

\* onUpdate(...) called for a handle: counted, and noted when the handle had
\* been stopped.
OnUpdate(h) == [h EXCEPT !.calls = Min(@ + 1, MaxCalls), !.late = @ \/ h.stopped]

\* The catch handler of startPushUpdates.
CatchHandler(h) == OnUpdate(h)

\* A listener body: if (stopped) return; ... onUpdate(...).
Listener(h) == IF h.stopped THEN h ELSE OnUpdate(h)

\* startPushUpdates: stopped = false and _ensureConnection() up to its
\* first await.
NodeStartPush ==
    \E n \in NodeHandles :
        /\ nodeHandles[n].st = "free"
        /\ \A k \in NodeHandles : k < n => nodeHandles[k].st # "free"
        /\ nodeHandles' = [nodeHandles EXCEPT
                              ![n].st = "connecting",
                              ![n].attempt = IF connection # NULL THEN "kept"
                                             ELSE IF appletv = NULL THEN "noLibrary"
                                             ELSE "scanning"]
        /\ UNCHANGED <<listeners, connection>>
        /\ UNCHANGED nonNodePushVars

\* The promise of _ensureConnection settles and the then or catch handler
\* runs. A scanning attempt stores the connection it opened; the then
\* handler attaches the listeners to this.connection unless stopped, and
\* throws into the catch handler when this.connection is null by then.
NodeAttemptSettles ==
    \E n \in NodeHandles, scan \in {"rejects", "none", "found"},
       credsOk \in BOOLEAN, openOk \in BOOLEAN :
        /\ nodeHandles[n].st = "connecting"
        /\ LET h == nodeHandles[n]
               r == IF h.attempt = "kept" THEN Resolved("kept")
                    ELSE EnsureOutcome(NULL, appletv, scan, credsOk, openOk)
               conn == EnsureConnection(connection, r)
           IN /\ connection' = conn
              /\ IF r.settled = "rejected"
                 THEN /\ nodeHandles' = [nodeHandles EXCEPT
                                            ![n] = [CatchHandler(h) EXCEPT !.st = "settled"]]
                      /\ UNCHANGED listeners
                 ELSE IF h.stopped
                 THEN /\ nodeHandles' = [nodeHandles EXCEPT ![n].st = "settled"]
                      /\ UNCHANGED listeners
                 ELSE IF conn = NULL
                 THEN /\ nodeHandles' = [nodeHandles EXCEPT
                                            ![n] = [CatchHandler(h) EXCEPT !.st = "settled"]]
                      /\ UNCHANGED listeners
                 ELSE /\ nodeHandles' = [nodeHandles EXCEPT ![n].st = "listening"]
                      /\ listeners' = listeners \cup {n}
        /\ UNCHANGED nonNodePushVars

\* The connection object emits nowPlaying, close or error: the listener a
\* handle attached runs.
NodeEvent ==
    \E n \in listeners :
        /\ nodeHandles' = [nodeHandles EXCEPT ![n] = Listener(@)]
        /\ UNCHANGED <<listeners, connection>>
        /\ UNCHANGED nonNodePushVars

\* handle.stop(): stopped = true; with a connection at hand, remove all
\* listeners of the three events, close it and clear the reference. When
\* removing or closing throws, the catch block ignores it and listeners may
\* stay attached.
NodeStop ==
    \E n \in NodeHandles, removeThrows \in BOOLEAN :
        /\ nodeHandles[n].st # "free"
        /\ ~nodeHandles[n].stopped
        /\ nodeHandles' = [nodeHandles EXCEPT ![n].stopped = TRUE]
        /\ IF connection # NULL
           THEN /\ listeners' = IF removeThrows THEN listeners ELSE {}
                /\ connection' = NULL
           ELSE /\ ~removeThrows
                /\ UNCHANGED <<listeners, connection>>
        /\ UNCHANGED nonNodePushVars

InitNodePush ==
    /\ nodeHandles = [n \in NodeHandles |-> FreeHandle]
    /\ listeners = {}

(***************************************************************************)
(* AppleTvAdapter.onStateChange (main.js) and the states a DeviceManager   *)
(* publishes through _setState.  A state id is its path below the device   *)
(* id, with whether it lies in the adapter's namespace and whether the     *)
(* device id has a manager.                                                *)
(***************************************************************************)
\* Paths _setState is called with (device-manager.js).
PublishedPaths ==
    {<<"info", "connected">>, <<"info", "name">>, <<"power", "state">>,
     <<"volume", "level">>, <<"playing", "title">>, <<"playing", "position">>,
     <<"playing", "artworkBase64">>, <<"apps", "current">>, <<"apps", "list">>}

\* Further paths of the state tree, and one that is too short.
CommandPaths ==
    {<<"remote", "play">>, <<"apps", "launch">>, <<"apps", "netflix">>,
     <<"apps", "netflix", "launch">>, <<"apps", "netflix", "channels", "ard">>,
     <<"power">>}

NoChange ==
    [from |-> "none", null |-> FALSE, ack |-> FALSE, own |-> FALSE, known |-> FALSE,
     path |-> <<>>, dispatched |-> "none"]

\* The try block of onStateChange: the manager method for channel and
\* state name; parts counts the device id.
Dispatch(path) ==
    LET parts == Len(path) + 1
        channel == path[1]
        stateName == path[2]
    IN CASE channel = "remote" -> "handleRemoteCommand"
         [] channel = "power" /\ stateName = "state" -> "handlePowerCommand"
         [] channel = "playing" /\ stateName = "position" -> "handleSeek"
         [] channel = "apps" /\ stateName = "launch" /\ parts = 3 -> "handleAppLaunch"
         [] channel = "apps" /\ ~(stateName = "launch" /\ parts = 3)
               /\ parts = 4 /\ path[3] = "launch" -> "handleAppFolderLaunch"
         [] channel = "apps" /\ ~(stateName = "launch" /\ parts = 3)
               /\ parts = 5 /\ path[3] = "channels" -> "handleChannelButton"
         [] channel = "apps" /\ parts = 3
               /\ stateName \notin {"launch", "list", "current", "currentId"}
               -> "handleAppButton"
         [] OTHER -> "none"

AckIgnored(c) == c.null

\* if (!state || state.ack) return;
Ignored(c) == c.null \/ c.ack

\* onStateChange(id, state): the manager method it calls, if any.
OnStateChange(c) ==
    IF Ignored(c) THEN "none"
    ELSE IF ~c.own THEN "none"
    ELSE IF Len(c.path) + 1 < 3 THEN "none"
    ELSE IF ~c.known THEN "none"
    ELSE Dispatch(c.path)

\* _setState(path, value): setStateAsync(deviceId + '.' + path, value, true)
\* on the manager's own device id.
SetState(path) ==
    [NoChange EXCEPT !.from = "manager", !.ack = TRUE, !.own = TRUE, !.known = TRUE,
                     !.path = path]

\* A manager publishes a state and the subscription hands the change to
\* onStateChange.
ManagerSetState ==
    /\ \E path \in PublishedPaths :
          stateChange' = [SetState(path) EXCEPT !.dispatched = OnStateChange(SetState(path))]
    /\ UNCHANGED <<successor, unload>>
    /\ UNCHANGED dmVars
    /\ UNCHANGED nonAdapterVars

\* Anyone else writes or deletes a state, with or without ack.
ForeignStateChange ==
    /\ \E path \in PublishedPaths \cup CommandPaths,
          null \in BOOLEAN, ack \in BOOLEAN, own \in BOOLEAN, known \in BOOLEAN :
          LET c == [NoChange EXCEPT !.from = "other", !.null = null,
                                    !.ack = ~null /\ ack, !.own = own,
                                    !.known = known, !.path = path]
          IN stateChange' = [c EXCEPT !.dispatched = OnStateChange(c)]
    /\ UNCHANGED <<successor, unload>>
    /\ UNCHANGED dmVars
    /\ UNCHANGED nonAdapterVars

(***************************************************************************)
(* AppleTvAdapter._storePairCredentials (main.js): the manager of the      *)
(* device is disconnected and deleted, then _initDevice creates and        *)
(* connects a new one.  The manager of the connectivity model is the old   *)
(* one; of the new one only its delivery mode is kept.                     *)
(***************************************************************************)
\* The awaited disconnect() of the old manager has resolved (a sink that
\* never rejects), the manager is deleted from this.devices and
\* _initDevice creates the new manager and calls its connect().
StoreInitDevice ==
    /\ extPlan = "closed" /\ sinkReliable
    /\ successor = "none"
    /\ successor' = "connecting"
    /\ UNCHANGED <<stateChange, unload>>
    /\ UNCHANGED dmVars
    /\ UNCHANGED nonAdapterVars

\* connect() of the new manager returns: it holds a push handle, or the
\* poll timer of the fallback.
SuccessorConnected ==
    /\ successor = "connecting"
    /\ \E mode \in {"push", "poll"} : successor' = mode
    /\ UNCHANGED <<stateChange, unload>>
    /\ UNCHANGED dmVars
    /\ UNCHANGED nonAdapterVars

(***************************************************************************)
(* AppleTvAdapter.onUnload (main.js) over the adapter's auto-scan timer,   *)
(* its pairing sessions and its device managers.  Sessions and managers    *)
(* are numbered; registered / created are those ever put into              *)
(* _pairingSessions / devices, aborted / disconnected those on which       *)
(* pairAbort() / disconnect() has been called.                             *)
(***************************************************************************)
Managers == 1..MaxManagers

SessionIds == 1..MaxSessions

NoUnload ==
    [pc |-> "running", autoScanTimer |-> FALSE,
     pairingSessions |-> {}, registered |-> {}, aborted |-> {},
     devices |-> {}, created |-> {}, disconnected |-> {},
     current |-> 0, callbacks |-> 0]

\* onReady step 8: this.autoScanTimer = setInterval(...).
ScheduleAutoScan ==
    /\ unload.pc = "running" /\ ~unload.autoScanTimer
    /\ unload' = [unload EXCEPT !.autoScanTimer = TRUE]
    /\ UNCHANGED <<successor, stateChange>>
    /\ UNCHANGED dmVars
    /\ UNCHANGED nonAdapterVars

\* startPairing got the prompt: this._pairingSessions.set(identifier, ...).
RegisterSession ==
    /\ unload.pc = "running"
    /\ \E s \in SessionIds \ unload.registered :
          unload' = [unload EXCEPT !.pairingSessions = @ \cup {s},
                                   !.registered = @ \cup {s}]
    /\ UNCHANGED <<successor, stateChange>>
    /\ UNCHANGED dmVars
    /\ UNCHANGED nonAdapterVars

\* _initDevice: this.devices.set(deviceId, manager).
RegisterManager ==
    /\ unload.pc = "running"
    /\ \E m \in Managers \ unload.created :
          unload' = [unload EXCEPT !.devices = @ \cup {m}, !.created = @ \cup {m}]
    /\ UNCHANGED <<successor, stateChange>>
    /\ UNCHANGED dmVars
    /\ UNCHANGED nonAdapterVars

\* finally { callback(); }
UnloadFinally(u) == [u EXCEPT !.pc = "done", !.current = 0, !.callbacks = @ + 1]

\* The loop over this.devices: disconnect() is called on the next manager
\* and awaited; after the last one this.devices.clear() and the finally
\* block.  The result is the set of records the loop can go to.
UnloadLoop(u) ==
    IF u.devices \ u.disconnected = {}
    THEN {UnloadFinally([u EXCEPT !.devices = {}])}
    ELSE {[u EXCEPT !.pc = "disconnecting", !.current = m,
                    !.disconnected = @ \cup {m}] : m \in u.devices \ u.disconnected}

\* onUnload up to its first await: the timer is cleared, pairAbort() is
\* called on every session's backend, the sessions are cleared, and the
\* loop over the managers starts.
OnUnload ==
    /\ unload.pc = "running"
    /\ unload' \in UnloadLoop([unload EXCEPT !.autoScanTimer = FALSE,
                                            !.aborted = @ \cup unload.pairingSessions,
                                            !.pairingSessions = {}])
    /\ UNCHANGED <<successor, stateChange>>
    /\ UNCHANGED dmVars
    /\ UNCHANGED nonAdapterVars

\* The awaited manager.disconnect() settles: the loop goes on, or the
\* rejection (of the manager's _setState) lands in the catch block, which
\* logs it, and the finally block runs.
UnloadDisconnected ==
    /\ unload.pc = "disconnecting"
    /\ \E sinkOk \in SinkOutcomes :
          IF sinkOk
          THEN unload' \in UnloadLoop(unload)
          ELSE unload' = UnloadFinally(unload)
    /\ UNCHANGED <<successor, stateChange>>
    /\ UNCHANGED dmVars
    /\ UNCHANGED nonAdapterVars

InitStore == successor = "none" /\ stateChange = NoChange /\ unload = NoUnload

\* The parts below have nothing in progress.
RestIdle == InitCreds /\ ApiIdle /\ InitPushProcs /\ InitNodePush /\ InitStore

InitParser ==
    /\ written = <<>>
    /\ wire = <<>>
    /\ buffer = <<>>
    /\ events = <<>>

InitPush == InitParser /\ DMIdle /\ InitPairing(0) /\ RestIdle

NextPush == PushWrite \/ StdoutData

SpecPush == InitPush /\ [][NextPush]_vars

InitPair == InitPairing(MaxBackends) /\ DMIdle /\ InitParser /\ RestIdle

NextPair ==
    \/ CallPairStart \/ CallPairFinish \/ CallPairAbort
    \/ PairData \/ PairExit \/ PairStartTimeout \/ PairFinishTimeout

SpecPair == InitPair /\ [][NextPair]_vars

\* Timers fire: a pending setTimeout callback runs after its 30 s.
SpecPairTimers ==
    /\ InitPair
    /\ [][NextPair]_vars
    /\ WF_vars(PairStartTimeout)
    /\ WF_vars(PairFinishTimeout)

InitAdapter == InitPairing(0) /\ DMIdle /\ InitParser /\ RestIdle

NextAdapter ==
    \/ StartPairing \/ SubmitPin \/ AbortPairing
    \/ PairData \/ PairExit \/ PairStartTimeout \/ PairFinishTimeout

SpecAdapter == InitAdapter /\ [][NextAdapter]_vars

NextDM ==
    \/ ExtConnectCall \/ ExtConnectPush \/ ExtConnectPublished
    \/ ExtCycle \/ ExtShutdown \/ ExtDisconnected
    \/ ReconnectFire \/ CbDisconnected \/ CbConnectPush \/ CbConnectPublished
    \/ ProcExit \/ ProcConnLine \/ ProcDataLine
    \/ PollTick \/ PollTickDone \/ PollTickPublished

\* A fresh manager; no pairing in progress, no push text in flight.
InitManager == InitDM /\ InitPairing(0) /\ InitParser /\ RestIdle

SpecDM == InitManager /\ [][NextDM]_vars

NextStore == NextDM \/ StoreInitDevice \/ SuccessorConnected

SpecStore == InitManager /\ [][NextStore]_vars

\* Nothing constructed or in progress anywhere.
InitIdle == DMIdle /\ InitPairing(0) /\ InitParser /\ RestIdle

NextCreds == OutputToken \/ ExtractCall \/ StartExitCall \/ FinishExitCall

SpecCreds == InitIdle /\ [][NextCreds]_vars

NextStateChange == ManagerSetState \/ ForeignStateChange

SpecStateChange == InitIdle /\ [][NextStateChange]_vars

NextUnload ==
    \/ ScheduleAutoScan \/ RegisterSession \/ RegisterManager
    \/ OnUnload \/ UnloadDisconnected

SpecUnload == InitManager /\ [][NextUnload]_vars

\* Both backends constructed, the library of the NodeBackend found or not.
InitBackends ==
    /\ DMIdle /\ InitPairing(0) /\ InitParser /\ InitCreds
    /\ InitApi /\ InitPushProcs /\ InitNodePush /\ InitStore

NextApi ==
    \/ PyatvGetAppListCall \/ NodeGetAppListCall
    \/ PyatvGetPowerStateCall \/ NodeGetPowerStateCall
    \/ PyatvIsReachableCall \/ NodeIsReachableCall
    \/ PyatvSendCommandCall \/ NodeSendCommandCall

SpecApi == InitBackends /\ [][NextApi]_vars

NextPushProcs ==
    \/ PushSpawn \/ PushProcError \/ PushConnectionLine \/ PushProcExit
    \/ PushStop \/ PushKillTimer

SpecPushProcs == InitIdle /\ [][NextPushProcs]_vars

\* The same steps, with the event loop running every timer that is due: a
\* grace timer armed by stop() fires.
SpecPushStop == InitIdle /\ [][NextPushProcs]_vars /\ WF_vars(PushKillTimer)

NextNodePush == NodeStartPush \/ NodeAttemptSettles \/ NodeEvent \/ NodeStop

SpecNodePush == InitBackends /\ [][NextNodePush]_vars

(***************************************************************************)
(* Claims about the connectivity state machine, checked under SpecDM.      *)
(***************************************************************************)

\* C1: over disconnect()/connect() cycles at most one push handle or poll
\* timer is live at every point, and nothing survives that the manager no
\* longer refers to: every live push process, poll interval, artwork
\* interval and reconnect timeout is the one held in the manager's field.
C1_AtMostOneLive ==
    /\ LivePush + pollIntervals <= 1
    /\ LivePush = Count(pushHandle = "running")
    /\ pollIntervals = Count(pollTimer # NULL)
    /\ artworkIntervals = Count(artworkTimer # NULL)
    /\ timeouts = Count(reconnectTimer # NULL)

\* C2: once the owner's final disconnect() has returned the manager holds no
\* push handle and no poll, reconnect or artwork timer, whatever arrives
\* later.
C2_NothingAfterDisconnect ==
    extPlan = "closed" =>
        /\ pushHandle = NULL /\ pollTimer = NULL
        /\ reconnectTimer = NULL /\ artworkTimer = NULL
        /\ LivePush = 0 /\ pollIntervals = 0
        /\ artworkIntervals = 0 /\ timeouts = 0

\* C3: reconnectAttempts never passes the ceiling; with the ceiling reached
\* and no timer pending, no step that leaves the counter at the ceiling arms
\* a timer, and once no callback is running none starts again.
AtCeiling == reconnectAttempts >= MAX_RECONNECT_ATTEMPTS /\ reconnectTimer = NULL

DelayTable == <<5000, 10000, 20000, 40000, 80000, 160000, 300000, 300000, 300000, 300000>>

Armed == timeouts' > timeouts

C4_BackoffDelay ==
    [][Armed =>
        /\ reconnectAttempts < 10
        /\ lastDelay' = DelayTable[reconnectAttempts + 1]
        /\ reconnectAttempts' = reconnectAttempts + 1
        /\ lastDelay' >= lastDelay
        /\ (lastDelay = 300000 => lastDelay' = 300000)]_vars

\* A timer armed at the saturated delay, after one already armed at it.
C4_Witness ==
    reconnectTimer # NULL /\ timeouts = 1 /\ reconnectAttempts = 8 /\ lastDelay = 300000

\* C9: along the scenario (e2e: 1 push start succeeded, 2 connection lost and
\* reconnect scheduled, 3 the reconnect's connect() failed at push, 4 a poll
\* tick succeeded) the reconnect is armed at the base delay, the failed
\* reconnect leaves a live poll timer, and the successful tick makes
\* connected true and reconnectAttempts 0.
C9_EndToEnd ==
    /\ e2e = 1 => connected /\ pushHandle = "running" /\ reconnectAttempts = 0
    /\ e2e = 2 =>
        /\ ~connected /\ lastDelay = 5000 /\ reconnectAttempts = 1
        /\ (reconnectTimer # NULL /\ timeouts = 1) \/ cbPc # "idle"
    /\ e2e = 3 =>
        /\ ~connected /\ pushHandle = NULL
        /\ pollTimer # NULL /\ pollIntervals = 1 /\ reconnectAttempts = 1
    /\ e2e = 4 =>
        /\ connected /\ reconnectAttempts = 0
        /\ pollTimer # NULL /\ pollIntervals = 1

C9_Witness == e2e = 4 /\ connected /\ reconnectAttempts = 0 /\ pollTimer # NULL

(***************************************************************************)
(* Claims about pairing, checked under SpecAdapter (C5) and SpecPair.      *)
(***************************************************************************)

\* C5: for every identifier at most one pairing process started for it is
\* live (running and not sent a signal): a second startPairing aborts the
\* first request's process before it starts its own.
C5_OneLivePerIdentifier ==
    \A i \in Identifiers :
        Cardinality({p \in PairProcs : LiveProc(proc, p) /\ proc[p].ident = i}) <= 1

\* pairStart was never called on backend b.
NeverStarted(b) == \A p \in PairProcs : proc[p].st = "free" \/ proc[p].backend # b

\* The step is a call of op on a backend.
Called(op) == lastOp'.op = op /\ lastOp'.b \in Backends

\* C6: pairFinish on a backend on which pairStart was never called rejects
\* with the no-active-process error, spawns no process, writes to no
\* process, and leaves every process, reference and call as it was.
C6_FinishWithoutStart ==
    [][Called("pairFinish") /\ NeverStarted(lastOp'.b) =>
        /\ lastOp'.res = "NoActiveSession"
        /\ UNCHANGED <<proc, pairProcess, fin, backends, sessions>>]_vars

\* pairFinish was just rejected on a backend never started, while another
\* backend has a live process waiting for its PIN.
C6_Witness ==
    /\ lastOp.op = "pairFinish" /\ lastOp.res = "NoActiveSession"
    /\ NeverStarted(lastOp.b)
    /\ \E p \in PairProcs : LiveProc(proc, p) /\ proc[p].prompt /\ proc[p].pins = 0

\* Backend b holds a live pairing process that has shown the PIN prompt.
LiveAwaitingPin(b) ==
    /\ pairProcess[b] # NoProcess
    /\ LiveProc(proc, pairProcess[b])
    /\ proc[pairProcess[b]].prompt

\* C7: pairFinish on a backend without a live pairing process in AwaitingPin
\* rejects at once with the no-active-process error.
C7_FinishNeedsAwaitingPin ==
    [][Called("pairFinish") /\ ~LiveAwaitingPin(lastOp'.b) =>
        lastOp'.res = "NoActiveSession"]_vars

\* C8 as stated: pairAbort on a backend without a live process changes
\* nothing.
C8_AbortWithoutLiveChangesNothing ==
    [][Called("pairAbort") /\ ~LiveProc(proc, pairProcess[lastOp'.b]) =>
        UNCHANGED <<proc, pairProcess, fin, backends, sessions>>]_vars

\* C8: pairAbort does not throw; with a live process it signals that process
\* and clears the reference; with no live process it signals nothing and
\* leaves the reference null, clearing a reference to an exited or never
\* started process; nothing else changes, and a second pairAbort changes
\* nothing.
C8_AbortIdempotent ==
    /\ [][Called("pairAbort") =>
            LET b == lastOp'.b
                ref == pairProcess[b]
            IN /\ lastOp'.res = "ok"
               /\ pairProcess' = [pairProcess EXCEPT ![b] = NoProcess]
               /\ proc' = IF LiveProc(proc, ref)
                          THEN [proc EXCEPT ![ref].killed = TRUE] ELSE proc
               /\ UNCHANGED <<fin, backends, sessions>>]_vars
    /\ [](\A b \in Backends :
            LET P1 == PairAbortProcs(proc, pairProcess[b])
                r1 == PairAbortRef(proc, pairProcess[b])
            IN PairAbortProcs(P1, r1) = P1 /\ PairAbortRef(P1, r1) = r1)

\* pairAbort was just called on a backend whose only process had shown the
\* PIN prompt and then exited by itself, with no pairFinish attached: the
\* reference to it was cleared by this pairAbort.
C8_Witness ==
    /\ lastOp.op = "pairAbort"
    /\ pairProcess[lastOp.b] = NoProcess
    /\ \E p \in PairProcs :
          /\ proc[p].backend = lastOp.b /\ proc[p].st = "exited" /\ ~proc[p].killed
          /\ proc[p].sres = "awaitingPin" /\ Attached(p) = {}
          /\ \A q \in PairProcs \ {p} : proc[q].backend # lastOp.b

(***************************************************************************)
(* Claims about the push-update parser, checked under SpecPush.            *)
(***************************************************************************)

\* What each printed line must produce: the events of a well-formed line, in
\* the order power, volume, connection; none for a line that is not JSON,
\* not an object or not a success report, and none for a blank line.
LineEvents(name) ==
    CASE name = "power" -> <<"power">>
      [] name = "volume" -> <<"volume">>
      [] name = "both" -> <<"power", "volume">>
      [] name = "closed" -> <<"connection">>
      [] name = "state" -> <<"playing">>
      [] name = "full" -> <<"power", "playing", "volume", "connection">>
      [] name \in {"bare", "error", "truncated", "garbage", "null", "blank"} -> <<>>

\* Tokens of the first n printed lines, newlines included.
RECURSIVE TextLen(_)
TextLen(n) == IF n = 0 THEN 0 ELSE TextLen(n - 1) + Len(LineText(written[n])) + 1

\* Printed lines whose newline has been delivered.
LinesDelivered ==
    LET got == TextLen(Len(written)) - Len(wire)
    IN Cardinality({n \in 1..Len(written) : TextLen(n) <= got})

RECURSIVE ExpectedEvents(_)
ExpectedEvents(n) ==
    IF n = 0 THEN <<>> ELSE ExpectedEvents(n - 1) \o LineEvents(written[n])

\* C10: whatever lines are fed and however they are cut into chunks, the
\* events emitted so far are those of the well-formed lines delivered so far,
\* in the order the lines arrived; a malformed line adds no event and the
\* lines after it are still processed.
C10_MalformedLinesSkipped == events = ExpectedEvents(LinesDelivered)

\* A well-formed line, a malformed one and another well-formed one were
\* delivered, and both well-formed lines produced their events.
C10_Witness ==
    /\ written = <<"power", "error", "volume">>
    /\ wire = <<>>
    /\ events = <<"power", "volume">>

\* A printed line that is an object reporting success.
SuccessLine(name) ==
    LET t == Strip(LineText(name))
    IN Len(t) >= 2 /\ t[1] = "O" /\ t[Len(t)] = "}"

\* The member written as token t is present in the line.
Present(name, t) == \E k \in 1..Len(LineText(name)) : LineText(name)[k] = t

\* The events of a success line by member presence, in the order power,
\* playing, volume, connection.
Decomposed(name) ==
    (IF Present(name, "P") THEN <<"power">> ELSE <<>>)
    \o (IF Present(name, "T") \/ Present(name, "D") THEN <<"playing">> ELSE <<>>)
    \o (IF Present(name, "V") THEN <<"volume">> ELSE <<>>)
    \o (IF Present(name, "C") THEN <<"connection">> ELSE <<>>)

RECURSIVE DecomposedUpTo(_)
DecomposedUpTo(n) ==
    IF n = 0 THEN <<>> ELSE DecomposedUpTo(n - 1) \o Decomposed(written[n])

\* C28: each success line is decomposed by member presence into a power
\* event iff power_state is present, a playing event iff title or
\* device_state is present, a volume event iff volume is present and a
\* connection event iff connection is present, emitted in that order; a
\* line with none of these members yields no event.
C28_EventsByPresence ==
    (\A n \in 1..Len(written) : SuccessLine(written[n]))
        => events = DecomposedUpTo(LinesDelivered)

\* A line with power_state, title, volume and connection printed in another
\* order, a line with no member and a line with device_state alone were
\* delivered.
C28_Witness ==
    /\ written = <<"full", "bare", "state">>
    /\ wire = <<>>
    /\ events = <<"power", "playing", "volume", "connection", "playing">>

\* Everything the process has printed, newlines included.
RECURSIVE Printed(_)
Printed(n) ==
    IF n = 0 THEN <<>> ELSE Printed(n - 1) \o LineText(written[n]) \o <<"\n">>

\* The part of it that has reached the 'data' listener.
Delivered ==
    SubSeq(Printed(Len(written)), 1, Len(Printed(Len(written))) - Len(wire))

\* C29: the events emitted depend only on the text delivered so far, not
\* on how it was cut into chunks: they are those of the lines of that text
\* that end in a newline, and the text after the last newline waits in the
\* buffer unparsed.
C29_ChunkingIrrelevant ==
    /\ events = HandleLines(Front(Split(Delivered)))
    /\ buffer = Split(Delivered)[Len(Split(Delivered))]

\* A chunk ended in the middle of the second line: the first line has
\* produced its event, the piece of the second waits in the buffer and has
\* produced none.
C29_Witness ==
    /\ written = <<"power", "full">>
    /\ buffer = <<"O", "C", "V">>
    /\ wire = <<"T", "P", "}", "\n">>
    /\ events = <<"power">>

(***************************************************************************)
(* Claims about credential extraction, checked under SpecCreds.            *)
(***************************************************************************)

\* Rule (1) as stated: the first line that begins with credentials: in any
\* letter case, and has something after it, yields the rest, trimmed.
RECURSIVE FirstPrefixed(_)
FirstPrefixed(ls) ==
    IF ls = <<>> THEN NoCredentials
    ELSE IF Head(ls)[1] \in {"c", "C", "U"} /\ Len(Head(ls)) > 1
    THEN Credentials(Trim(Tail(Head(ls))))
    ELSE FirstPrefixed(Tail(ls))

\* C11: the result is that of rule (1), a case-insensitive credentials:
\* prefix scanned top to bottom; failing that of rule (2), the lowest line
\* of only hexadecimal digits and colons longer than 20; failing that, no
\* credentials.
C11_ExtractionRules ==
    extracted.called =>
        LET ls == TrimmedNonEmpty(Split(output))
        IN extracted.result =
              IF FirstPrefixed(ls).found THEN FirstPrefixed(ls) ELSE LastHexLine(ls)

(***************************************************************************)
(* Claims about backend calls (SpecApi).                                   *)
(***************************************************************************)

\* C12: getAppList() never rejects on either backend. On the subprocess
\* transport every failure of the underlying invocation, a report of missing
\* credentials included, resolves to the empty list; on the event-driven
\* transport the call always resolves to the empty list.
C12_AppListNeverRejects ==
    lastCall.op = "getAppList" =>
        /\ lastCall.settled = "resolved"
        /\ lastCall.failure # "none" => lastCall.value = "empty"
        /\ lastCall.backend = "node" => lastCall.value = "empty"

\* getAppList on the subprocess transport met a failure report from atvscript
\* (what missing credentials produce) and resolved to the empty list.
C12_Witness ==
    /\ lastCall.op = "getAppList"
    /\ lastCall.backend = "pyatv"
    /\ lastCall.failure = "atvscript error"
    /\ lastCall.settled = "resolved"
    /\ lastCall.value = "empty"

\* C13: isReachable() never rejects on either backend: every internal
\* failure becomes the result false, and success becomes the result true.
C13_ReachableNeverRejects ==
    lastCall.op = "isReachable" =>
        /\ lastCall.settled = "resolved"
        /\ lastCall.value = IF lastCall.failure = "none" THEN "true" ELSE "false"

\* isReachable on the event-driven transport found the device but could not
\* open the connection, and resolved to false.
C13_Witness ==
    /\ lastCall.op = "isReachable"
    /\ lastCall.backend = "node"
    /\ lastCall.failure = "open failed"
    /\ lastCall.settled = "resolved"
    /\ lastCall.value = "false"

CommandMap(backend) == IF backend = "pyatv" THEN PYATV_COMMAND_MAP ELSE NODE_KEY_MAP

\* C14: sendCommand(command) with a command that has no entry in the
\* transport's command map fails with an unsupported-command error and does
\* not invoke the transport, on both backends.
C14_UnsupportedWithoutTransport ==
    (lastCall.op = "sendCommand" /\ lastCall.command \notin CommandMap(lastCall.backend)) =>
        /\ lastCall.settled = "rejected"
        /\ lastCall.value = "not supported"
        /\ ~lastCall.invoked


(***************************************************************************)
(* Further claims about the DeviceManager (SpecDM).                        *)
(***************************************************************************)

AllCleared ==
    /\ pushHandle = NULL /\ pollTimer = NULL /\ reconnectTimer = NULL
    /\ artworkTimer = NULL /\ ~connected

\* The owner's disconnect() settles in this step.
DisconnectReturns == extPc = "disc" /\ extPc' # "disc"

\* C15: when disconnect() returns, pushHandle, pollTimer, reconnectTimer and
\* artworkTimer are all null and connected is false, from whatever state it
\* was called.
C15_DisconnectLeavesCleared == [][DisconnectReturns => AllCleared']_vars

\* connect() settles in this step, called by the owner or by the reconnect
\* callback.
ConnectReturns ==
    \/ extPc \in {"info", "pub"} /\ extPc' = "idle"
    \/ cbPc \in {"info", "pub"} /\ cbPc' = "idle"

PushMode ==
    /\ pushHandle # NULL /\ pollTimer = NULL /\ connected
    /\ reconnectAttempts = 0 /\ artworkTimer # NULL

PollMode == pollTimer # NULL /\ pushHandle = NULL /\ artworkTimer = NULL

\* C19: after connect() returns the session is in exactly one delivery mode,
\* push (push handle set, no poll timer, connected, reconnectAttempts 0,
\* artwork timer running) or poll (poll timer set, no push handle, no
\* artwork timer), also when publishing the connected state failed after the
\* push handle was obtained.
C19_OneDeliveryMode == [][ConnectReturns => (PushMode' \/ PollMode')]_vars

\* A step of a handler that calls _scheduleReconnect.
SchedulerCalledWhilePending ==
    /\ reconnectTimer # NULL
    /\ ProcExit \/ ProcConnLine \/ (cbPc = "disc" /\ cbPc' = "idle" /\ CbDisconnected)

\* C20: at most one reconnect timer is pending in every reachable state, and
\* a call of the reconnect scheduler while a timer is pending arms no timer
\* and leaves reconnectAttempts as it was.
C20_OneReconnectTimer ==
    /\ [](timeouts <= 1 /\ timeouts = Count(reconnectTimer # NULL))
    /\ [][SchedulerCalledWhilePending =>
             UNCHANGED <<reconnectTimer, timeouts, reconnectAttempts, lastDelay>>]_vars

\* A connection-loss event arrived while the timer armed by an earlier one
\* was pending: still one timer, still one attempt counted.
C20_Witness ==
    /\ coalesced
    /\ reconnectTimer # NULL
    /\ timeouts = 1
    /\ reconnectAttempts = 1

\* C21: when the reconnect that followed a connection loss spawned a new push
\* process and that process is lost before it delivers anything, the next
\* reconnect is armed with a larger attempt count and a longer delay than
\* the first one, instead of restarting at the base delay.
C21_BackoffGrows ==
    e2e = 6 => reconnectAttempts > 1 /\ lastDelay > RECONNECT_BASE_DELAY

\* What a failed poll tick leaves alone.
PollFrame ==
    UNCHANGED <<reconnectAttempts, reconnectTimer, timeouts, pollTimer, pollIntervals,
                pushHandle>>

\* C22: a poll tick that fails marks the manager disconnected and leaves
\* reconnectAttempts, reconnectTimer, pollTimer and pushHandle unchanged; no
\* reconnect timer is armed and the poll interval stays alive. The same
\* holds for a tick whose publishing of the recovered connection fails.
C22_PollFailureFrame ==
    [][/\ PollTickSettles(FALSE) => (~connected' /\ PollFrame)
       /\ (PollTickPublished /\ ~connected') => PollFrame]_vars

\* After push loss, fallback to polling and recovery by a poll tick, a later
\* tick failed: disconnected, poll timer alive, no reconnect timer,
\* reconnectAttempts still 0.
C22_Witness ==
    /\ e2e = 7
    /\ ~connected
    /\ pollTimer # NULL /\ pollIntervals = 1
    /\ pushHandle = NULL
    /\ reconnectTimer = NULL /\ timeouts = 0
    /\ reconnectAttempts = 0

(***************************************************************************)
(* Further claims about the pairing handlers (SpecAdapter).                *)
(***************************************************************************)

\* The pairFinish call f made by a submitPin handler has settled.
FinishCompleted(f) ==
    fin[f].ident # 0 /\ fin[f].res \in {"paired", "failed", "timeout", "sendFailed", "typeError"}

\* C18: once a submitPin that reached pairFinish has completed, with success
\* or with failure, the registry no longer holds the session that pairFinish
\* was called on.
C18_NoSessionAfterFinish ==
    \A f \in FinCalls : FinishCompleted(f) => sessions[fin[f].ident] # fin[f].backend

(***************************************************************************)
(* Claims about push-update subprocesses (SpecPushProcs).                  *)
(***************************************************************************)

\* The reasons of the terminal events among the connection events a process
\* has delivered, in order.
RECURSIVE TerminalReasons(_)
TerminalReasons(reasons) ==
    IF reasons = <<>> THEN <<>>
    ELSE IF Head(reasons) \in {"process_error", "process_exit"}
    THEN <<Head(reasons)>> \o TerminalReasons(Tail(reasons))
    ELSE TerminalReasons(Tail(reasons))

\* C16: a push-update subprocess whose spawn failed has delivered exactly one
\* terminal connection event, with reason process_error; one that exited has
\* delivered exactly one, with reason process_exit; a process that did
\* neither has delivered none. No process delivers two.
C16_OneTerminalEvent ==
    \A p \in PushProcs :
        TerminalReasons(pushProcs[p].reasons) =
            CASE pushProcs[p].st = "failed" -> <<"process_error">>
              [] pushProcs[p].st = "exited" -> <<"process_exit">>
              [] OTHER -> <<>>

\* One process failed to spawn; another printed a connection line, was
\* stopped and signalled by the grace timer, and exited: one terminal event
\* each.
C16_Witness ==
    \E p, q \in PushProcs :
        /\ pushProcs[p].st = "failed"
        /\ pushProcs[p].reasons = <<"process_error">>
        /\ pushProcs[q].st = "exited"
        /\ pushProcs[q].killed
        /\ pushProcs[q].reasons = <<"closed", "process_exit">>

\* A push process that runs and has not been sent SIGTERM.
PushLive(p) == pushProcs[p].st = "running" /\ ~pushProcs[p].killed

\* C30: after stop() was called on the handle of a push process, the
\* process is eventually not live: it has exited or the grace timer has
\* sent it SIGTERM.  stop() is idempotent: a call changes nothing about the
\* process by itself, however often it is called the process is signalled
\* at most once, and nothing about a process that has exited or failed to
\* start changes any more.
C30_StopEndsProcess ==
    /\ \A p \in PushProcs : (pushProcs[p].stops > 0) ~> ~PushLive(p)
    /\ [][\A p \in PushProcs :
            LET q == pushProcs[p]
                r == pushProcs'[p]
            IN /\ r.signals <= 1
               /\ r.stops # q.stops \/ q.st \in {"exited", "failed"}
                     => r.st = q.st /\ r.killed = q.killed
                        /\ r.signals = q.signals /\ r.reasons = q.reasons]_vars

\* stop() was called twice on a running process, which was signalled once
\* and exited; every timer has fired.
C30_Witness ==
    \E p \in PushProcs :
        /\ pushProcs[p].stops = 2
        /\ pushProcs[p].killTimers = 0
        /\ pushProcs[p].killed /\ pushProcs[p].signals = 1
        /\ pushProcs[p].st = "exited"

(***************************************************************************)
(* Claims about push updates of the NodeBackend (SpecNodePush).            *)
(***************************************************************************)

\* C17: after stop() on a push handle of the event-driven transport the
\* update callback of that handle is never invoked again, whether a
\* nowPlaying, close or error event arrives or the connection attempt that
\* was in progress completes or fails.
C17_NoCallbackAfterStop == \A n \in NodeHandles : ~nodeHandles[n].late

\* C31: once stop() has been called on every push handle handed out, the
\* backend holds no open connection, also when a stop() came before the
\* connection attempt of its startPushUpdates had completed.
C31_NoConnectionAfterStop ==
    (/\ \E n \in NodeHandles : nodeHandles[n].st # "free"
     /\ \A n \in NodeHandles : nodeHandles[n].st # "free" => nodeHandles[n].stopped)
        => connection = NULL

(***************************************************************************)
(* Claims about the adapter replacing a manager (SpecStore).               *)
(***************************************************************************)

\* C32: storing credentials disconnects and removes the device's manager
\* before the new one is created, and once the new manager holds its push
\* handle or poll timer the old one holds no push handle, poll timer or
\* reconnect timer.
C32_OneSessionPerDevice ==
    /\ successor # "none" => extPlan = "closed"
    /\ successor \in {"push", "poll"} =>
          pushHandle = NULL /\ pollTimer = NULL /\ reconnectTimer = NULL

\* C33: a state change with ack = true calls no manager method, and every
\* state a manager publishes is written with ack = true and so calls none:
\* published playing.position and power.state do not come back as seek or
\* power commands.
C33_AckNeverDispatches ==
    /\ stateChange.ack => stateChange.dispatched = "none"
    /\ stateChange.from = "manager" =>
          stateChange.ack /\ stateChange.dispatched = "none"

\* A manager published playing.position, the path whose change without ack
\* is a seek, and nothing was called.
C33_Witness ==
    /\ stateChange.from = "manager"
    /\ stateChange.path = <<"playing", "position">>
    /\ Dispatch(stateChange.path) = "handleSeek"
    /\ stateChange.dispatched = "none"

\* A poll tick gets through its awaited backend calls in this step.
PollTickReturns == ticksInFlight' < ticksInFlight

\* C34: after the owner's disconnect() has returned for good, a poll tick
\* that was in flight when the poll timer was cleared does not set connected
\* back to true (and so does not publish info.connected = true).
C34_TickAfterDisconnect ==
    [][(extPlan = "closed" /\ PollTickReturns) => ~connected']_vars

(***************************************************************************)
(* Further claims about pairStart / pairFinish (SpecPair).                 *)
(***************************************************************************)

\* A call that has resolved or rejected.
Settled(res) == res \notin {"none", "free", "pending"}

\* C23: a pairStart call and a pairFinish call that has settled keeps its
\* outcome: no later data, exit, write failure or 30 s timer resolves or
\* rejects it again.
C23_SettlesOnce ==
    [][/\ \A p \in PairProcs : Settled(proc[p].sres) => proc'[p].sres = proc[p].sres
       /\ \A f \in FinCalls : Settled(fin[f].res) => fin'[f].res = fin[f].res]_vars

\* A pairStart call resolved with awaitingPin and its process exited
\* afterwards; a pairFinish call timed out and the process it was attached
\* to exited afterwards.
C23_Witness ==
    \E p \in PairProcs, f \in FinCalls :
        /\ proc[p].sres = "awaitingPin" /\ proc[p].st = "exited"
        /\ fin[f].res = "timeout" /\ fin[f].proc # NoProcess
        /\ proc[fin[f].proc].st = "exited"

\* A pairing process that has exited, never started, or was sent SIGTERM.
Terminated(q) == q.st # "running" \/ q.killed

\* C24: when the 30 s timer of a pending pairStart call or of a pending
\* pairFinish call fires, the call rejects with the timeout error, the
\* pairing process of the call is terminated and the process reference of
\* its backend is cleared.
C24_TimeoutAborts ==
    [][/\ \A p \in PairProcs :
             proc[p].sres = "pending" /\ proc'[p].sres = "timeout"
                 => /\ Terminated(proc'[p])
                    /\ pairProcess'[proc[p].backend] = NoProcess
       /\ \A f \in FinCalls :
             fin[f].res = "pending" /\ fin'[f].res = "timeout"
                 => /\ Terminated(proc'[fin[f].proc])
                    /\ pairProcess'[fin[f].backend] = NoProcess]_vars

\* The live pairing processes a backend has spawned.
LiveOf(b) == {p \in PairProcs : proc[p].backend = b /\ LiveProc(proc, p)}

\* C27: a backend has at most one live pairing process, and whenever it has
\* one its process reference points to it, also when pairStart is called
\* while an earlier pairStart or pairFinish is pending and the old process
\* exits after the new spawn.
C27_OneLiveProcess ==
    \A b \in Backends :
        /\ Cardinality(LiveOf(b)) <= 1
        /\ \A p \in LiveOf(b) : pairProcess[b] = p

\* Backend b's current pairing process is live, and was spawned by a later
\* pairStart than process p.
Superseded(p, b) == pairProcess[b] > p /\ LiveProc(proc, pairProcess[b])

\* The current process of backend b is left live and referenced by this step.
CurrentKept(b) ==
    /\ pairProcess'[b] = pairProcess[b]
    /\ LiveProc(proc', pairProcess[b])

\* C35: when the 30 s timer of a pairStart or pairFinish call fires after a
\* later pairStart on the same backend has spawned a new process, the
\* process of the current attempt stays live and referenced.
C35_OldTimerSparesCurrent ==
    [][/\ \A p \in PairProcs :
             (proc[p].sres = "pending" /\ proc'[p].sres = "timeout"
                 /\ Superseded(p, proc[p].backend)) => CurrentKept(proc[p].backend)
       /\ \A f \in FinCalls :
             (fin[f].res = "pending" /\ fin'[f].res = "timeout"
                 /\ Superseded(fin[f].proc, fin[f].backend))
                     => CurrentKept(fin[f].backend)]_vars

\* C36: with timers that fire, every pairStart call and every pairFinish
\* call that is pending eventually resolves or rejects, whatever the
\* process does: no output, a prompt without exit, an exit, a spawn error,
\* an abort by another caller.
C36_CallsSettle ==
    /\ \A p \in PairProcs : (proc[p].sres = "pending") ~> Settled(proc[p].sres)
    /\ \A f \in FinCalls : (fin[f].res = "pending") ~> Settled(fin[f].res)

\* A pairStart call on a process that printed nothing, and a pairFinish call
\* on a process that is still running, both settled by their timers.
C36_Witness ==
    \E p \in PairProcs, f \in FinCalls :
        /\ proc[p].sres = "timeout" /\ ~proc[p].prompt /\ ~proc[p].creds
        /\ fin[f].res = "timeout" /\ proc[fin[f].proc].st = "running"

(***************************************************************************)
(* Claims about the exit handlers of pairStart / pairFinish (SpecCreds).   *)
(***************************************************************************)

\* The credentials marker of the extraction rule is in the text: some line
\* matches /[Cc]redentials?:\s*(.+)/.
HasCredentialsMarker(out) == FirstMatch(TrimmedNonEmpty(Split(out))).found

\* C25: when the pairing process exits before the PIN prompt appeared,
\* pairStart resolves with status paired and the extracted credentials
\* exactly when the accumulated output holds a credentials marker as the
\* extraction rule defines it; otherwise it rejects with an excerpt of the
\* output of at most 300 characters.
C25_ExitBeforePrompt ==
    exitCall.handler = "pairStart" /\ ~IncludesPrompt(output) =>
        IF HasCredentialsMarker(output)
        THEN /\ exitCall.status = "paired"
             /\ exitCall.credentials.found
             /\ exitCall.credentials = ExtractCredentials(output)
        ELSE /\ exitCall.status = "rejected"
             /\ exitCall.excerpt = Excerpt(output)
             /\ exitCall.excerpt <= EXCERPT_LIMIT

\* The outcome of the pairFinish call is the one decided over the text out.
FinishDecidedOver(out) ==
    /\ exitCall.cleared
    /\ IF ExtractCredentials(out).found
       THEN /\ exitCall.status = "paired"
            /\ exitCall.credentials = ExtractCredentials(out)
       ELSE IF exitCall.code = 0
       THEN /\ exitCall.status = "paired"
            /\ exitCall.credentials = Credentials(TrimText(out))
       ELSE /\ exitCall.status = "rejected"
            /\ exitCall.excerpt <= EXCERPT_LIMIT
            /\ exitCall.excerpt <= LineLength(out)
            /\ exitCall.excerpt = EXCERPT_LIMIT \/ exitCall.excerpt = LineLength(out)

\* C26 as stated: on process exit during pairFinish the outcome is decided
\* over the full output of the pairing process: credentials found resolve
\* paired with them, else exit code zero resolves paired with the trimmed
\* raw output, else the call rejects with a bounded excerpt; in all three
\* cases the process reference is cleared.
C26_DecidedOverFullOutput ==
    exitCall.handler = "pairFinish" => FinishDecidedOver(output)

\* C26, amended: the outcome is decided in that way over the output that
\* arrived after pairFinish was called; what the process printed before the
\* call is not scanned.
C26_DecidedOverCollected ==
    exitCall.handler = "pairFinish" =>
        FinishDecidedOver(SubSeq(output, exitCall.from + 1, Len(output)))

\* pairFinish was called after the process had printed something; the
\* process then printed text without credentials and exited with code 0,
\* and the call resolved paired with that text, trimmed.
C26_Witness ==
    /\ exitCall.handler = "pairFinish"
    /\ exitCall.from > 0 /\ exitCall.from < Len(output)
    /\ exitCall.code = 0
    /\ ~ExtractCredentials(SubSeq(output, exitCall.from + 1, Len(output))).found
    /\ ExtractCredentials(output).found
    /\ exitCall.status = "paired"
    /\ exitCall.credentials.value # <<>>

\* C37: a call that resolves with status paired carries credentials that
\* are a non-empty string, never null and never the empty string.
C37_PairedHasCredentials ==
    exitCall.status = "paired" =>
        exitCall.credentials.found /\ exitCall.credentials.value # <<>>

(***************************************************************************)
(* Further claims about the adapter's handlers (SpecAdapter).              *)
(***************************************************************************)

\* The last step answered an abortPairing request for identifier i with
\* status aborted: without a registered session, or after pairAbort on the
\* registered backend, which startPairing created for this identifier.
AbortAnswered(i) ==
    \/ lastOp = AbortedUnregistered(i)
    \/ /\ lastOp.op = "pairAbort"
       /\ \E p \in PairProcs : proc[p].backend = lastOp.b /\ proc[p].ident = i

\* C38: once an abortPairing request for an identifier has been answered
\* with aborted, no pairing process started for that identifier is live,
\* also when the startPairing request still waits for the PIN prompt.
C38_AbortEndsAttempts ==
    \A i \in Identifiers :
        AbortAnswered(i) => \A p \in PairProcs : proc[p].ident = i => ~LiveProc(proc, p)

(***************************************************************************)
(* Claim about onUnload (SpecUnload).                                      *)
(***************************************************************************)

\* C39: once onUnload has invoked its callback, it has done so exactly
\* once, the adapter holds no pairing sessions and no device managers,
\* pairAbort() has been called for every registered session, disconnect()
\* on every manager created, and the auto-scan timer is cleared; also when
\* a disconnect fails.
C39_UnloadReleasesAll ==
    unload.callbacks > 0 =>
        /\ unload.callbacks = 1
        /\ unload.pairingSessions = {} /\ unload.devices = {}
        /\ unload.registered \subseteq unload.aborted
        /\ unload.created \subseteq unload.disconnected
        /\ ~unload.autoScanTimer

====
